---- MODULE Spec2Model ----
(***************************************************************************)
(* Model of the data-transformation engine of mcp_bi_visualizer            *)
(* (data/processor.py).  A call of a DataProcessor operation is a two-step *)
(* state machine: the call with its arguments (call, pc = "call"), then    *)
(* the return (result, pc = "done"): a table, or an exception that reaches *)
(* the caller, with the levels of the records it logged.  Each operation   *)
(* has its own specification (SpecFilter, SpecAggregate, SpecJoin,         *)
(* SpecPivot, SpecTransform) over the same variables; pivot_data takes a   *)
(* step more, the lookup of the function name before the table is read.    *)
(*                                                                         *)
(* The registries of the server (resources/manager.py, resources/memo.py)  *)
(* and the tools of server.py that use them are modelled as calls on the   *)
(* objects resource_manager and memo_manager: SpecRegistry is any sequence *)
(* of ResourceManager calls, SpecServer any sequence of memo and insight   *)
(* tool calls, SpecApply callers that apply an operation to a registered   *)
(* dataset at the same time, and SpecClean a call of clean_data.           *)
(*                                                                         *)
(* pandas is modelled by what it does (pandas 2.x, numpy-backed columns):  *)
(*   - a column has a dtype: int64, float64 (a numeric column that holds   *)
(*     a missing value) or object (text; any column of a table without     *)
(*     rows); the dtype is kept when rows are removed;                     *)
(*   - a missing cell is NaN; astype(str) turns it into the text "nan";    *)
(*   - Series <op> scalar follows pandas.core.ops.comparison_op;           *)
(*   - groupby, merge, pivot_table and cut run with their defaults         *)
(*     (sort=True, dropna=True; missing keys match; right=True).           *)
(* A number is an integer, or the quotient n / d of a mean or a median.    *)
(* Text is a sequence of one-character strings.                            *)
(***************************************************************************)
EXTENDS Integers, Sequences, FiniteSets, TLC

VARIABLES call, pc, result, resource_manager, twin, memo_manager, history

vars == <<call, pc, result, resource_manager, twin, memo_manager, history>>

\* The objects of the server (server.py lines 30-35) and the calls made on
\* them so far; a call of a DataProcessor operation reads none of them.
server == <<resource_manager, twin, memo_manager, history>>

\* A dict: its items in insertion order.
EmptyDict == <<>>

\* ResourceManager.__init__ and MemoResourceManager.__init__.
new_manager ==
    [connections |-> EmptyDict, datasets |-> EmptyDict,
     visualizations |-> EmptyDict]

new_memo_manager == [memory |-> EmptyDict]

\* The server right after construction: nothing registered, no call made.
InitServer ==
    /\ resource_manager = new_manager
    /\ twin = new_manager
    /\ memo_manager = new_memo_manager
    /\ history = <<>>

(***************************************************************************)
(* Bounds of the model: the rows of a table, the conditions of a filter    *)
(* batch, the largest number in a cell (numbers are 1..MaxNum), the        *)
(* largest join key (keys are 1..MaxKey), and the entries of a batch of    *)
(* column transformations.                                                 *)
(***************************************************************************)
MaxRows == 2

MaxFilters == 2

MaxNum == 3

MaxKey == 2

MaxTransforms == 2

(***************************************************************************)
(* Cells (spec section 3: Null | Integer | Text).                          *)
(***************************************************************************)
Null == [tag |-> "Null", n |-> 0, d |-> 1, s |-> <<>>]

Num(i) == [tag |-> "Num", n |-> i, d |-> 1, s |-> <<>>]

Text(t) == [tag |-> "Text", n |-> 0, d |-> 1, s |-> t]

IsNull(c) == c.tag = "Null"

\* The characters of the model's texts, in code-point order.
Alphabet == <<"-", ".", "0", "1", "2", "3", "4", "5", "6", "7", "8", "9",
              "N", "a", "e", "n", "o", "x", "y">>

CharCode(ch) == CHOOSE i \in 1..Len(Alphabet) : Alphabet[i] = ch

DigitChar(d) == Alphabet[d + 3]

\* str(int): the decimal digits.
RECURSIVE NatStr(_)
NatStr(n) == IF n < 10 THEN <<DigitChar(n)>>
             ELSE NatStr(n \div 10) \o <<DigitChar(n % 10)>>

IntStr(n) == IF n < 0 THEN <<"-">> \o NatStr(-n) ELSE NatStr(n)

\* Python's str < str: lexicographic on code points.
RECURSIVE TextLess(_, _)
TextLess(s, t) ==
    IF t = <<>> THEN FALSE
    ELSE IF s = <<>> THEN TRUE
    ELSE IF CharCode(Head(s)) # CharCode(Head(t))
         THEN CharCode(Head(s)) < CharCode(Head(t))
    ELSE TextLess(Tail(s), Tail(t))

IsPrefix(p, t) == Len(p) <= Len(t) /\ SubSeq(t, 1, Len(p)) = p

IsSuffix(p, t) == Len(p) <= Len(t) /\ SubSeq(t, Len(t) - Len(p) + 1, Len(t)) = p

\* re.search of a pattern without metacharacters: a substring test.
IsSubstring(p, t) ==
    \E i \in 0..(Len(t) - Len(p)) : SubSeq(t, i + 1, i + Len(p)) = p

(***************************************************************************)
(* Tables.  columns is the ordered list of column names, dtypes the dtype  *)
(* of each column, rows the rows in order, each a function column -> cell. *)
(***************************************************************************)
SeqToSet(s) == {s[i] : i \in 1..Len(s)}

Column(df, col) == [i \in 1..Len(df.rows) |-> df.rows[i][col]]

\* df[mask]: the rows whose mask is true, in order; columns and dtypes kept.
RECURSIVE SelectRows(_, _)
SelectRows(rows, mask) ==
    IF rows = <<>> THEN <<>>
    ELSE (IF Head(mask) THEN <<Head(rows)>> ELSE <<>>)
         \o SelectRows(Tail(rows), Tail(mask))

BoolIndex(df, mask) == [df EXCEPT !.rows = SelectRows(df.rows, mask)]

Invert(mask) == [i \in 1..Len(mask) |-> ~mask[i]]

MaskAnd(m1, m2) == [i \in 1..Len(m1) |-> m1[i] /\ m2[i]]

(***************************************************************************)
(* pandas column operations used by filter_data.  The outcome of a mask    *)
(* computation is a mask, or an exception (raises).                        *)
(***************************************************************************)
NumericDtype(dt) == dt \in {"int64", "float64"}

Masked(m) == [raises |-> FALSE, mask |-> m]

Raises == [raises |-> TRUE, mask |-> <<>>]

\* x <op> y for two cells of the same tag, neither of them missing.
CmpCells(op, x, y) ==
    LET eq == x = y
        lt == IF x.tag = "Num" THEN x.n < y.n ELSE TextLess(x.s, y.s)
    IN CASE op = "==" -> eq
         [] op = "!=" -> ~eq
         [] op = "<"  -> lt
         [] op = "<=" -> lt \/ eq
         [] op = ">"  -> ~lt /\ ~eq
         [] op = ">=" -> ~lt

\* Series <op> scalar (pandas.core.ops.array_ops.comparison_op):
\*   a missing scalar: every row False (True for !=);
\*   a numeric column against a text: invalid_comparison, which answers == and
\*   != and raises TypeError for the orderings;
\*   otherwise cell by cell (libops.scalar_compare on an object column): a
\*   missing cell is False (True for !=), a cell of another type is False for
\*   ==, True for != and raises TypeError for an ordering.
compare_series(dtype, cells, op, value) ==
    LET all(b) == [i \in 1..Len(cells) |-> b]
        other(i) == ~IsNull(cells[i]) /\ cells[i].tag # value.tag
    IN IF IsNull(value) THEN Masked(all(op = "!="))
       ELSE IF NumericDtype(dtype) /\ value.tag = "Text"
            THEN (IF op \in {"==", "!="} THEN Masked(all(op = "!=")) ELSE Raises)
       ELSE IF op \notin {"==", "!="} /\ \E i \in 1..Len(cells) : other(i)
            THEN Raises
       ELSE Masked([i \in 1..Len(cells) |->
                IF IsNull(cells[i]) \/ other(i) THEN op = "!="
                ELSE CmpCells(op, cells[i], value)])

\* Series.astype(str), cell by cell: NaN becomes the text "nan", a number of a
\* float64 column prints with ".0".
astype_str(dtype, c) ==
    IF IsNull(c) THEN <<"n", "a", "n">>
    ELSE IF c.tag = "Text" THEN c.s
    ELSE IF dtype = "float64" THEN IntStr(c.n) \o <<".", "0">>
    ELSE IntStr(c.n)

\* Python's str(value) of a scalar filter value (None prints as "None").
py_str(v) ==
    IF IsNull(v) THEN <<"N", "o", "n", "e">>
    ELSE IF v.tag = "Text" THEN v.s
    ELSE IntStr(v.n)

\* Series.astype(str).str.<method>(pattern, na=False): the match is made on
\* the text form of every cell; after astype(str) no cell is missing, so
\* na=False never applies.
str_match(method, dtype, cells, pattern) ==
    [i \in 1..Len(cells) |->
        LET t == astype_str(dtype, cells[i])
        IN CASE method = "contains"   -> IsSubstring(pattern, t)
             [] method = "startswith" -> IsPrefix(pattern, t)
             [] method = "endswith"   -> IsSuffix(pattern, t)]

\* Series.isin(values), for values that hold no missing value: a cell is
\* selected when it equals one of the values; a missing cell never is.
isin(cells, items) ==
    [i \in 1..Len(cells) |->
        ~IsNull(cells[i]) /\ \E j \in 1..Len(items) : items[j] = cells[i]]

isnull(cells) == [i \in 1..Len(cells) |-> IsNull(cells[i])]

(***************************************************************************)
(* DataProcessor.filter_data.  A filter condition is                       *)
(* [column, operator, value]; a value is a scalar cell or a list of cells. *)
(***************************************************************************)
Scalar(c) == [list |-> FALSE, items |-> <<c>>]

List(cs) == [list |-> TRUE, items |-> cs]

\* The operator key is absent from the condition: dict.get returns None.
NoOperator == "<None>"

\* str.lower() on the operator names of the model.
lower(op) ==
    CASE op = "Contains"    -> "contains"
      [] op = "notContains" -> "notcontains"
      [] op = "startsWith"  -> "startswith"
      [] op = "endsWith"    -> "endswith"
      [] op = "notIn"       -> "notin"
      [] op = "isNull"      -> "isnull"
      [] op = "notNull"     -> "notnull"
      [] OTHER              -> op

\* `column not in df.columns`
column_missing(df, column) == column \notin SeqToSet(df.columns)

\* comparison_op with the branches of = and != exchanged.
comparison_op_Swapped(operator) ==
    CASE operator \in {"=", "=="} -> "!="
      [] operator = "!=" -> "=="
      [] operator = ">"  -> ">"
      [] operator = "<"  -> "<"
      [] operator = ">=" -> ">="
      [] operator = "<=" -> "<="

\* The comparison operators, by the pandas operation each one calls.
comparison_op(operator) ==
    CASE operator \in {"=", "=="} -> "=="
      [] operator = "!=" -> "!="
      [] operator = ">"  -> ">"
      [] operator = "<"  -> "<"
      [] operator = ">=" -> ">="
      [] operator = "<=" -> "<="

\* between_mask with the upper bound excluded: (col >= lo) & (col < hi).
between_mask_ExclusiveHigh(dtype, cells, lo, hi) ==
    LET ge == compare_series(dtype, cells, ">=", lo)
        le == compare_series(dtype, cells, "<", hi)
    IN IF ge.raises \/ le.raises THEN Raises
       ELSE Masked(MaskAnd(ge.mask, le.mask))

\* (col >= value[0]) & (col <= value[1])
between_mask(dtype, cells, lo, hi) ==
    LET ge == compare_series(dtype, cells, ">=", lo)
        le == compare_series(dtype, cells, "<=", hi)
    IN IF ge.raises \/ le.raises THEN Raises
       ELSE Masked(MaskAnd(ge.mask, le.mask))

\* `isinstance(value, list) and len(value) == 2`
between_value_ok(value) == value.list /\ Len(value.items) = 2

\* `if not isinstance(value, list): value = [value]`
as_list(value) == value.items

\* The body of the try block for one condition: the row mask of the
\* condition on the current frame (kind "mask"), an exception (kind
\* "raise"), or no branch taken (kind "unsupported").  Comparison and text
\* operators are given scalar values.
condition_mask(fdf, column, operator, value) ==
    LET cells == Column(fdf, column)
        dtype == fdf.dtypes[column]
        v == value.items[1]
        of(out) == IF out.raises THEN [kind |-> "raise", mask |-> <<>>]
                   ELSE [kind |-> "mask", mask |-> out.mask]
        m(mask) == [kind |-> "mask", mask |-> mask]
    IN IF operator \in {"=", "==", "!=", ">", "<", ">=", "<="}
       THEN of(compare_series(dtype, cells, comparison_op(operator), v))
       ELSE IF operator = NoOperator
       THEN [kind |-> "raise", mask |-> <<>>]
       ELSE CASE lower(operator) = "contains" ->
                   m(str_match("contains", dtype, cells, py_str(v)))
              [] lower(operator) = "notcontains" ->
                   m(Invert(str_match("contains", dtype, cells, py_str(v))))
              [] lower(operator) = "startswith" ->
                   m(str_match("startswith", dtype, cells, py_str(v)))
              [] lower(operator) = "endswith" ->
                   m(str_match("endswith", dtype, cells, py_str(v)))
              [] lower(operator) = "in" -> m(isin(cells, as_list(value)))
              [] lower(operator) = "notin" ->
                   m(Invert(isin(cells, as_list(value))))
              [] lower(operator) = "between" ->
                   IF ~between_value_ok(value)
                   THEN [kind |-> "raise", mask |-> <<>>]
                   ELSE of(between_mask(dtype, cells, value.items[1],
                                        value.items[2]))
              [] lower(operator) = "isnull" -> m(isnull(cells))
              [] lower(operator) = "notnull" -> m(Invert(isnull(cells)))
              [] OTHER -> [kind |-> "unsupported", mask |-> <<>>]

\* apply_condition where a missing column selects no row instead of being
\* skipped.
apply_condition_MissingSelectsNone(df, fdf, cond) ==
    IF column_missing(df, cond.column)
    THEN [df |-> BoolIndex(fdf, [i \in 1..Len(fdf.rows) |-> FALSE]),
          log |-> <<"warning">>]
    ELSE LET out == condition_mask(fdf, cond.column, cond.operator, cond.value)
         IN CASE out.kind = "mask" ->
                   [df |-> BoolIndex(fdf, out.mask), log |-> <<>>]
              [] out.kind = "unsupported" ->
                   [df |-> fdf, log |-> <<"warning">>]
              [] out.kind = "raise" ->
                   [df |-> fdf, log |-> <<"error">>]

\* One turn of the loop over the conditions: the frame after the condition
\* and what was logged.  A missing column and an unsupported operator log a
\* warning; an exception of the try block is caught and logged as an error;
\* in the three cases the frame is left as it was.
apply_condition(df, fdf, cond) ==
    IF column_missing(df, cond.column)
    THEN [df |-> fdf, log |-> <<"warning">>]
    ELSE LET out == condition_mask(fdf, cond.column, cond.operator, cond.value)
         IN CASE out.kind = "mask" ->
                   [df |-> BoolIndex(fdf, out.mask), log |-> <<>>]
              [] out.kind = "unsupported" ->
                   [df |-> fdf, log |-> <<"warning">>]
              [] out.kind = "raise" ->
                   [df |-> fdf, log |-> <<"error">>]

RECURSIVE filter_loop(_, _, _)
filter_loop(df, fdf, filters) ==
    IF filters = <<>> THEN [df |-> fdf, log |-> <<>>]
    ELSE LET step == apply_condition(df, fdf, Head(filters))
             rest == filter_loop(df, step.df, Tail(filters))
         IN [df |-> rest.df, log |-> step.log \o rest.log]

\* `if not filters: return df`
no_filters(filters) == filters = <<>>

\* filter_data that returns a frame without rows when there is no condition.
filter_data_NoFiltersNoRows(df, filters) ==
    IF no_filters(filters)
    THEN [df |-> [df EXCEPT !.rows = <<>>], raised |-> FALSE, log |-> <<>>]
    ELSE LET out == filter_loop(df, df, filters)
         IN [df |-> out.df, raised |-> FALSE, log |-> out.log \o <<"info">>]

\* filter_data(df, filters): the returned frame, whether an exception
\* reaches the caller, and the levels of the records logged.
filter_data(df, filters) ==
    IF no_filters(filters) THEN [df |-> df, raised |-> FALSE, log |-> <<>>]
    ELSE LET out == filter_loop(df, df, filters)
         IN [df |-> out.df, raised |-> FALSE, log |-> out.log \o <<"info">>]

(***************************************************************************)
(* Inputs.  A loaded table has the columns a (numbers) and b (text), either *)
(* of which may hold missing cells; the dtypes are the ones pandas infers. *)
(***************************************************************************)
NumCells == {Num(i) : i \in 1..MaxNum}

TextX == Text(<<"x">>)

TextNa == Text(<<"n", "a">>)

TextCells == {TextX, TextNa}

RowValues == [a : NumCells \cup {Null}, b : TextCells \cup {Null}]

SeqsUpTo(S, n) == UNION {[1..k -> S] : k \in 0..n}

infer_dtypes(rows) ==
    [a |-> IF rows = <<>> THEN "object"
           ELSE IF \E i \in 1..Len(rows) : IsNull(rows[i].a) THEN "float64"
           ELSE "int64",
     b |-> IF rows # <<>> /\ \A i \in 1..Len(rows) : IsNull(rows[i].b)
           THEN "float64"
           ELSE "object"]

Frame(rows) ==
    [columns |-> <<"a", "b">>, dtypes |-> infer_dtypes(rows), rows |-> rows]

Tables == {Frame(rows) : rows \in SeqsUpTo(RowValues, MaxRows)}

Cond(c, o, v) == [column |-> c, operator |-> o, value |-> v]

\* The filter conditions of the model: every operator of the code on both
\* columns, against values of the column's type and of the other type;
\* between with well-formed and malformed values; operator names the code
\* does not know; a column the table does not have.
CompareConds ==
    {Cond(c, o, Scalar(v)) :
        c \in {"a", "b"}, o \in {"=", "==", "!=", ">", "<", ">=", "<="},
        v \in {Num(2), TextX}}

TextConds ==
    {Cond(c, o, Scalar(v)) :
        c \in {"a", "b"},
        o \in {"contains", "notContains", "startsWith", "endsWith"},
        v \in {TextNa, Num(2)}}

InConds ==
    {Cond(c, o, v) :
        c \in {"a", "b"}, o \in {"in", "notIn"},
        v \in {Scalar(Num(2)), List(<<Num(1), Num(2)>>), List(<<TextX>>)}}

BetweenConds ==
    {Cond("a", "between", List(<<lo, hi>>)) : lo \in NumCells, hi \in NumCells}
    \cup {Cond(c, "between", v) :
            c \in {"a", "b"},
            v \in {List(<<Num(2)>>), Scalar(Num(2)), List(<<Num(1), TextX>>),
                   List(<<TextNa, TextX>>)}}

NullConds == {Cond(c, o, Scalar(Null)) : c \in {"a", "b"}, o \in {"isNull", "notNull"}}

SkippedConds ==
    {Cond("b", "eq", Scalar(TextX)), Cond("a", "gte", Scalar(Num(2))),
     Cond("a", NoOperator, Scalar(Num(2))),
     Cond("c", "=", Scalar(Num(2))), Cond("c", "between", Scalar(Num(2)))}

FilterConds ==
    CompareConds \cup TextConds \cup InConds \cup BetweenConds \cup NullConds
    \cup SkippedConds

\* The conditions that batches of two or more conditions are made of.
BatchConds ==
    {Cond("a", ">=", Scalar(Num(2))),
     Cond("b", ">", Scalar(Num(2))), Cond("b", "isNull", Scalar(Null)),
     Cond("a", "between", List(<<Num(1), Num(2)>>)),
     Cond("a", "between", List(<<Num(2)>>)),
     Cond("b", "eq", Scalar(TextX)), Cond("c", "=", Scalar(Num(2)))}

SeqsFromTo(S, lo, hi) == UNION {[1..k -> S] : k \in lo..hi}

FilterBatches ==
    SeqsUpTo(FilterConds, 1) \cup SeqsFromTo(BatchConds, 2, MaxFilters)

\* The table of the scenarios of spec section 8.
ScenarioTable ==
    Frame(<<[a |-> Num(1), b |-> TextX], [a |-> Num(2), b |-> Text(<<"y">>)],
            [a |-> Num(3), b |-> TextX]>>)

NoResult == [returned |-> FALSE, df |-> Frame(<<>>), raised |-> FALSE, log |-> <<>>]

\* The call ends: with a table, or with an exception and no table.
Returned(out) ==
    [returned |-> ~out.raised, df |-> out.df, raised |-> out.raised,
     log |-> out.log]

(***************************************************************************)
(* A call of filter_data and its return.                                   *)
(***************************************************************************)
InitFilter ==
    /\ \E t \in Tables \cup {ScenarioTable}, fs \in FilterBatches :
          call = [fn |-> "filter_data", df |-> t, filters |-> fs]
    /\ pc = "call"
    /\ result = NoResult
    /\ InitServer

FilterDataReturns ==
    /\ pc = "call"
    /\ call.fn = "filter_data"
    /\ result' = Returned(filter_data(call.df, call.filters))
    /\ pc' = "done"
    /\ UNCHANGED <<call, server>>

NextFilter == FilterDataReturns

SpecFilter == InitFilter /\ [][NextFilter]_vars

(***************************************************************************)
(* DataProcessor.aggregate_data.  group_by is a column name or a list of   *)
(* column names; aggregations is a dict, here the list of its items        *)
(* [column, func] in insertion order.                                      *)
(***************************************************************************)
GroupByStr(name) == [str |-> TRUE, names |-> <<name>>]

GroupByList(names) == [str |-> FALSE, names |-> names]

\* An item of the aggregations dict: a column and one function name, or a
\* column and a list of function names.
Agg(c, f) == [column |-> c, list |-> FALSE, func |-> f, funcs |-> <<>>]

AggList(c, fs) == [column |-> c, list |-> TRUE, func |-> "", funcs |-> fs]

\* The frame of a call that ended in an exception: nothing is returned.
NoFrame == [columns |-> <<>>, dtypes |-> [c \in {} |-> "object"], rows |-> <<>>]

Failed(log) == [df |-> NoFrame, raised |-> TRUE, log |-> log]

\* `if not group_by or not aggregations`: an empty string, list or dict.
nothing_to_aggregate(group_by, aggregations) ==
    group_by.names = <<>> \/ aggregations = <<>>

\* `col not in df.columns` over a list of names: the places of the names
\* the frame has no column for.
missing_columns(df, names) ==
    {i \in 1..Len(names) : names[i] \notin SeqToSet(df.columns)}

\* The key of a row: the tuple of its cells in the group-by columns.
group_key(row, names) == [i \in 1..Len(names) |-> row[names[i]]]

HasNullKey(key) == \E i \in 1..Len(key) : IsNull(key[i])

CellLess(x, y) == IF x.tag = "Num" THEN x.n < y.n ELSE TextLess(x.s, y.s)

\* Tuples of cells of the same columns, none missing: lexicographic order.
RECURSIVE KeyLess(_, _)
KeyLess(k1, k2) ==
    IF k1 = <<>> THEN FALSE
    ELSE IF Head(k1) # Head(k2) THEN CellLess(Head(k1), Head(k2))
    ELSE KeyLess(Tail(k1), Tail(k2))

RECURSIVE SortKeys(_)
SortKeys(keys) ==
    IF keys = {} THEN <<>>
    ELSE LET least == CHOOSE k \in keys : \A o \in keys \ {k} : KeyLess(k, o)
         IN <<least>> \o SortKeys(keys \ {least})

\* The keys of the rows of the frame.
row_keys(df, names) ==
    {group_key(df.rows[i], names) : i \in 1..Len(df.rows)}

\* groupby keeping the groups in the order of their first row (sort=False).
RECURSIVE group_keys_FirstSeen(_, _)
group_keys_FirstSeen(df, names) ==
    IF df.rows = <<>> THEN <<>>
    ELSE LET n == Len(df.rows)
             before == group_keys_FirstSeen(
                          [df EXCEPT !.rows = SubSeq(df.rows, 1, n - 1)], names)
             key == group_key(df.rows[n], names)
         IN IF HasNullKey(key) \/ key \in SeqToSet(before) THEN before
            ELSE Append(before, key)

\* df.groupby(names): the keys of the groups in sorted order (the default
\* sort=True); a row with a missing cell in a group-by column belongs to
\* no group (the default dropna=True).
group_keys(df, names) ==
    SortKeys({k \in row_keys(df, names) : ~HasNullKey(k)})

\* The cells of a column in the rows of one group, in row order.
group_cells(df, names, key, column) ==
    LET InGroup(r) == group_key(r, names) = key
        rows == SelectSeq(df.rows, InGroup)
    IN [i \in 1..Len(rows) |-> rows[i][column]]

\* The sum of the cells taken as the first of them.
SumCells_First(cells) == IF cells = <<>> THEN 0 ELSE Head(cells).n

RECURSIVE SumCells(_)
SumCells(cells) ==
    IF cells = <<>> THEN 0 ELSE Head(cells).n + SumCells(Tail(cells))

\* The function names that SeriesGroupBy has no method for.
UnknownFunctions == {"avg"}

RECURSIVE GCD(_, _)
GCD(x, y) == IF y = 0 THEN x ELSE GCD(y, x % y)

\* The float p / q for q > 0: a numeric cell with numerator n and
\* denominator d in lowest terms, so that 4 / 2 and 2 are the same cell.
Quotient(p, q) ==
    LET g == GCD(IF p < 0 THEN -p ELSE p, q)
    IN [tag |-> "Num", n |-> p \div g, d |-> q \div g, s |-> <<>>]

\* The median of a non-empty sequence of integers: the middle one in sorted
\* order, or the mean of the two middle ones.
median_of(ns) ==
    LET sorted == SortSeq(ns, LAMBDA x, y : x < y)
        len == Len(sorted)
    IN IF len % 2 = 1 THEN Quotient(sorted[(len + 1) \div 2], 1)
       ELSE Quotient(sorted[len \div 2] + sorted[len \div 2 + 1], 2)

\* One aggregation of a numeric column over the cells of a group; every
\* function skips the missing cells.
aggregate_cells(func, cells) ==
    LET NotNull(c) == ~IsNull(c)
        present == SelectSeq(cells, NotNull)
        ns == {present[i].n : i \in 1..Len(present)}
    IN CASE func = "sum"   -> Num(SumCells(present))
         [] func = "count" -> Num(Len(present))
         [] func = "mean"  ->
              IF present = <<>> THEN Null
              ELSE Quotient(SumCells(present), Len(present))
         [] func = "median" ->
              IF present = <<>> THEN Null
              ELSE median_of([i \in 1..Len(present) |-> present[i].n])
         [] func = "min"   ->
              IF present = <<>> THEN Null
              ELSE Num(CHOOSE n \in ns : \A o \in ns : n <= o)
         [] func = "max"   ->
              IF present = <<>> THEN Null
              ELSE Num(CHOOSE n \in ns : \A o \in ns : n >= o)
         [] func = "first" -> IF present = <<>> THEN Null ELSE present[1]
         [] func = "last"  ->
              IF present = <<>> THEN Null ELSE present[Len(present)]

agg_columns(aggregations) ==
    [i \in 1..Len(aggregations) |-> aggregations[i].column]

\* The (column, function) pairs of the aggregations in dict order, the
\* functions of a list in list order.
RECURSIVE agg_pairs(_)
agg_pairs(aggregations) ==
    IF aggregations = <<>> THEN <<>>
    ELSE LET h == Head(aggregations)
         IN (IF h.list
             THEN [i \in 1..Len(h.funcs) |->
                      [column |-> h.column, func |-> h.funcs[i]]]
             ELSE <<[column |-> h.column, func |-> h.func]>>)
            \o agg_pairs(Tail(aggregations))

\* Every aggregation taken as a list of functions.
is_multiindex_Always(aggregations) == TRUE

\* isinstance(result.columns, pd.MultiIndex): agg labels the result columns
\* with (column, function) pairs when some value of the dict is a list, and
\* with the column alone when every value is one function name.
is_multiindex(aggregations) ==
    \E i \in 1..Len(aggregations) : aggregations[i].list

\* '_'.join(col).strip('_') for the column labels (column, function) of the
\* calls made here and for the label (name, '') of a group-by column.
flat_name(column, func) ==
    CASE func = "" -> column
      [] column = "a" /\ func = "sum"    -> "a_sum"
      [] column = "a" /\ func = "mean"   -> "a_mean"
      [] column = "a" /\ func = "count"  -> "a_count"
      [] column = "a" /\ func = "min"    -> "a_min"
      [] column = "a" /\ func = "max"    -> "a_max"
      [] column = "a" /\ func = "median" -> "a_median"
      [] column = "a" /\ func = "first"  -> "a_first"
      [] column = "a" /\ func = "last"   -> "a_last"
      [] column = "b" /\ func = "count"  -> "b_count"

\* The names of the aggregated columns of the result.
result_columns(aggregations) ==
    LET pairs == agg_pairs(aggregations)
    IN [i \in 1..Len(pairs) |->
           IF is_multiindex(aggregations)
           THEN flat_name(pairs[i].column, pairs[i].func)
           ELSE pairs[i].column]

\* df.groupby(group_by).agg(aggregations).reset_index() and the flattening
\* of its column labels, for distinct group-by columns: raises on a function
\* name pandas does not know and, when the labels are plain names, on an
\* aggregated column that is a group-by column too (reset_index cannot
\* insert the key beside a column of the same name); otherwise one row per
\* group in the order of groupby, the group-by columns first, then one
\* column per (column, function) pair.
groupby_agg(df, names, aggregations) ==
    LET pairs == agg_pairs(aggregations)
        cols == result_columns(aggregations)
        keys == group_keys(df, names)
        KeyIndex(c) == CHOOSE i \in 1..Len(names) : names[i] = c
        AggIndex(c) == CHOOSE i \in 1..Len(cols) : cols[i] = c
        OutRow(key) ==
            [c \in SeqToSet(names) \cup SeqToSet(cols) |->
                IF c \in SeqToSet(names) THEN key[KeyIndex(c)]
                ELSE aggregate_cells(pairs[AggIndex(c)].func,
                                     group_cells(df, names, key,
                                                 pairs[AggIndex(c)].column))]
    IN IF \/ \E i \in 1..Len(pairs) : pairs[i].func \in UnknownFunctions
          \/ /\ ~is_multiindex(aggregations)
             /\ SeqToSet(names) \cap SeqToSet(cols) # {}
       THEN [raises |-> TRUE, df |-> NoFrame]
       ELSE [raises |-> FALSE,
             df |-> [columns |-> names \o cols,
                     dtypes |-> [c \in SeqToSet(names) \cup SeqToSet(cols) |->
                        IF c \in SeqToSet(names) THEN df.dtypes[c]
                        ELSE IF pairs[AggIndex(c)].func = "count"
                             THEN "int64"
                        ELSE IF pairs[AggIndex(c)].func \in {"mean", "median"}
                             THEN "float64"
                        ELSE df.dtypes[pairs[AggIndex(c)].column]],
                     rows |-> [i \in 1..Len(keys) |-> OutRow(keys[i])]]]

\* aggregate_data with the lenient policy of filter_data: a missing column
\* is logged and the frame returned as it is.
aggregate_data_Lenient(df, group_by, aggregations) ==
    IF nothing_to_aggregate(group_by, aggregations)
    THEN [df |-> df, raised |-> FALSE, log |-> <<>>]
    ELSE IF \/ missing_columns(df, group_by.names) # {}
            \/ missing_columns(df, agg_columns(aggregations)) # {}
    THEN [df |-> df, raised |-> FALSE, log |-> <<"warning">>]
    ELSE LET out == groupby_agg(df, group_by.names, aggregations)
         IN IF out.raises THEN Failed(<<"info", "error">>)
            ELSE [df |-> out.df, raised |-> FALSE, log |-> <<"info", "info">>]

\* aggregate_data(df, group_by, aggregations): the returned frame, whether
\* an exception reaches the caller (the except block logs it and raises it
\* again), and the levels of the records logged.
aggregate_data(df, group_by, aggregations) ==
    IF nothing_to_aggregate(group_by, aggregations)
    THEN [df |-> df, raised |-> FALSE, log |-> <<>>]
    ELSE IF \/ missing_columns(df, group_by.names) # {}
            \/ missing_columns(df, agg_columns(aggregations)) # {}
    THEN Failed(<<"error">>)
    ELSE LET out == groupby_agg(df, group_by.names, aggregations)
         IN IF out.raises THEN Failed(<<"info", "error">>)
            ELSE [df |-> out.df, raised |-> FALSE, log |-> <<"info", "info">>]

(***************************************************************************)
(* A call of aggregate_data and its return.                                *)
(***************************************************************************)
GroupBys ==
    {GroupByStr("b"), GroupByStr("c"), [str |-> TRUE, names |-> <<>>],
     GroupByList(<<>>), GroupByList(<<"b">>), GroupByList(<<"a">>),
     GroupByList(<<"c">>), GroupByList(<<"b", "a">>),
     GroupByList(<<"b", "c">>)}

AggFunctions ==
    {"sum", "mean", "count", "min", "max", "median", "first", "last"}

Aggregations ==
    {<<>>, <<Agg("c", "sum")>>, <<Agg("b", "count")>>,
     <<Agg("a", "sum"), Agg("c", "count")>>,
     <<Agg("a", "max"), Agg("b", "count")>>,
     <<AggList("a", <<"sum">>)>>, <<AggList("a", <<"sum", "max">>)>>,
     <<AggList("a", <<"min">>), Agg("b", "count")>>}
    \cup {<<Agg("a", f)>> : f \in AggFunctions \cup UnknownFunctions}

InitAggregate ==
    /\ \E t \in Tables \cup {ScenarioTable}, g \in GroupBys, ags \in Aggregations :
          call = [fn |-> "aggregate_data", df |-> t, group_by |-> g,
                  aggregations |-> ags]
    /\ pc = "call"
    /\ result = NoResult
    /\ InitServer

AggregateDataReturns ==
    /\ pc = "call"
    /\ call.fn = "aggregate_data"
    /\ result' = Returned(aggregate_data(call.df, call.group_by,
                                         call.aggregations))
    /\ pc' = "done"
    /\ UNCHANGED <<call, server>>

NextAggregate == AggregateDataReturns

SpecAggregate == InitAggregate /\ [][NextAggregate]_vars

(***************************************************************************)
(* join_data: pd.merge of two frames on one key column of each.  The left  *)
(* frames have the columns id and v, the right frames id and w, so the     *)
(* frames share no column but the key and no suffix is ever applied.       *)
(***************************************************************************)
valid_join_types == {"inner", "left", "right", "outer"}

\* The places of the right rows whose key cell is the key cell of the left
\* row l, in row order.  pd.merge matches a missing key with a missing key.
right_matches(left_df, right_df, left_on, right_on, l) ==
    LET Match(r) == right_df.rows[r][right_on] = left_df.rows[l][left_on]
    IN SelectSeq([r \in 1..Len(right_df.rows) |-> r], Match)

left_matches(left_df, right_df, left_on, right_on, r) ==
    LET Match(l) == left_df.rows[l][left_on] = right_df.rows[r][right_on]
    IN SelectSeq([l \in 1..Len(left_df.rows) |-> l], Match)

\* The columns of the merged frame: those of the left frame, then those of
\* the right frame; a key column of the same name on both sides appears once.
merged_columns(left_df, right_df, left_on, right_on) ==
    LET Kept(c) == ~(c = right_on /\ left_on = right_on)
    IN left_df.columns \o SelectSeq(right_df.columns, Kept)

\* The merged row of the left row l and the right row r; 0 stands for no
\* row on that side, whose cells are missing, but for the shared key.
merge_row(left_df, right_df, left_on, right_on, l, r) ==
    [c \in SeqToSet(merged_columns(left_df, right_df, left_on, right_on)) |->
        IF c \in SeqToSet(left_df.columns)
        THEN IF l # 0 THEN left_df.rows[l][c]
             ELSE IF c = left_on /\ left_on = right_on
                  THEN right_df.rows[r][right_on]
             ELSE Null
        ELSE IF r # 0 THEN right_df.rows[r][c] ELSE Null]

RECURSIVE Concat(_)
Concat(seqs) == IF seqs = <<>> THEN <<>> ELSE Head(seqs) \o Concat(Tail(seqs))

\* A join that keeps no left row without a match.
keeps_unmatched_left_Never(how) == FALSE

\* how = left and how = outer keep the left rows that have no match.
keeps_unmatched_left(how) == how \in {"left", "outer"}

\* how = right and how = outer keep the right rows that have no match.
keeps_unmatched_right(how) == how \in {"right", "outer"}

\* The rows of pd.merge(left_df, right_df, left_on, right_on, how): inner
\* and left joins follow the order of the left rows, a right join that of
\* the right rows; an outer join is taken as the rows of the left join
\* followed by the right rows without a match.
merge_rows(left_df, right_df, left_on, right_on, how) ==
    LET Row(l, r) == merge_row(left_df, right_df, left_on, right_on, l, r)
        OfLeft(l) ==
            LET m == right_matches(left_df, right_df, left_on, right_on, l)
            IN IF m = <<>>
               THEN IF keeps_unmatched_left(how) THEN <<Row(l, 0)>> ELSE <<>>
               ELSE [k \in 1..Len(m) |-> Row(l, m[k])]
        OfRight(r) ==
            LET m == left_matches(left_df, right_df, left_on, right_on, r)
            IN IF m = <<>>
               THEN IF keeps_unmatched_right(how) THEN <<Row(0, r)>> ELSE <<>>
               ELSE [k \in 1..Len(m) |-> Row(m[k], r)]
        OnlyRight(r) ==
            IF left_matches(left_df, right_df, left_on, right_on, r) = <<>>
               /\ keeps_unmatched_right(how)
            THEN <<Row(0, r)>> ELSE <<>>
    IN IF how = "right"
       THEN Concat([r \in 1..Len(right_df.rows) |-> OfRight(r)])
       ELSE Concat([l \in 1..Len(left_df.rows) |-> OfLeft(l)])
            \o Concat([r \in 1..Len(right_df.rows) |-> OnlyRight(r)])

\* pd.merge: raises KeyError when a key column is missing on its side.
merge(left_df, right_df, left_on, right_on, how) ==
    IF \/ left_on \notin SeqToSet(left_df.columns)
       \/ right_on \notin SeqToSet(right_df.columns)
    THEN [raises |-> TRUE, df |-> NoFrame]
    ELSE LET cols == merged_columns(left_df, right_df, left_on, right_on)
             rows == merge_rows(left_df, right_df, left_on, right_on, how)
             Source(c) == IF c \in SeqToSet(left_df.columns)
                          THEN left_df.dtypes[c] ELSE right_df.dtypes[c]
         IN [raises |-> FALSE,
             df |-> [columns |-> cols,
                     dtypes |-> [c \in SeqToSet(cols) |->
                        IF /\ Source(c) = "int64"
                           /\ \E i \in 1..Len(rows) : IsNull(rows[i][c])
                        THEN "float64" ELSE Source(c)],
                     rows |-> rows]]

\* join_data(left_df, right_df, left_on, right_on, join_type): the joined
\* frame, whether an exception reaches the caller, and the levels of the
\* records logged.  The join type is checked before the try block.
join_data(left_df, right_df, left_on, right_on, join_type) ==
    IF join_type \notin valid_join_types
    THEN Failed(<<>>)
    ELSE LET out == merge(left_df, right_df, left_on, right_on, join_type)
         IN IF out.raises THEN Failed(<<"info", "info", "error">>)
            ELSE [df |-> out.df, raised |-> FALSE,
                  log |-> <<"info", "info", "info">>]

(***************************************************************************)
(* A call of join_data and its return.                                     *)
(***************************************************************************)
JoinKeyCells == {Num(i) : i \in 1..MaxKey} \cup {Null}

TextA == Text(<<"A">>)

TextB == Text(<<"B">>)

TextC == Text(<<"C">>)

LeftRowValues == [id : JoinKeyCells, v : {TextA}]

RightRowValues == [id : JoinKeyCells, w : {TextB, TextC}]

\* The dtype a loader gives the key column: integers, floats when a cell is
\* missing, object for a frame without rows.
key_dtype(rows) ==
    IF rows = <<>> THEN "object"
    ELSE IF \E i \in 1..Len(rows) : IsNull(rows[i]["id"]) THEN "float64"
    ELSE "int64"

JoinFrame(columns, rows) ==
    [columns |-> columns,
     dtypes |-> [c \in SeqToSet(columns) |->
                    IF c = "id" THEN key_dtype(rows) ELSE "object"],
     rows |-> rows]

LeftTables == {JoinFrame(<<"id", "v">>, rows) : rows \in SeqsUpTo(LeftRowValues, MaxRows)}

RightTables == {JoinFrame(<<"id", "w">>, rows) : rows \in SeqsUpTo(RightRowValues, MaxRows)}

\* The key columns named by a call: the key of both frames, or a column that
\* one of the frames does not have.
JoinOns == {<<"id", "id">>, <<"zz", "id">>, <<"id", "zz">>}

JoinTypes == valid_join_types \cup {"cross"}

InitJoin ==
    /\ \E l \in LeftTables, r \in RightTables, on \in JoinOns, t \in JoinTypes :
          call = [fn |-> "join_data", left_df |-> l, right_df |-> r,
                  left_on |-> on[1], right_on |-> on[2], join_type |-> t]
    /\ pc = "call"
    /\ result = NoResult
    /\ InitServer

JoinDataReturns ==
    /\ pc = "call"
    /\ call.fn = "join_data"
    /\ result' = Returned(join_data(call.left_df, call.right_df, call.left_on,
                                    call.right_on, call.join_type))
    /\ pc' = "done"
    /\ UNCHANGED <<call, server>>

NextJoin == JoinDataReturns

SpecJoin == InitJoin /\ [][NextJoin]_vars

(***************************************************************************)
(* pivot_data: pd.pivot_table over one index column, one pivot column and  *)
(* one value column.  The function is named by a string; the result has    *)
(* the index column first and one column per value of the pivot column,    *)
(* which is labelled by that value.                                        *)
(***************************************************************************)
\* str.lower() on the function names of the model.
aggfunc_lower(aggfunc) ==
    CASE aggfunc = "Sum"  -> "sum"
      [] aggfunc = "LAST" -> "last"
      [] OTHER            -> aggfunc

Unsupported == "<ValueError>"

\* An unknown function name taken as the default of the parameter, mean.
agg_function_DefaultMean(aggfunc) ==
    LET name == aggfunc_lower(aggfunc)
    IN CASE name = "sum"    -> "np.sum"
         [] name = "count"  -> "len"
         [] name = "min"    -> "np.min"
         [] name = "max"    -> "np.max"
         [] name = "median" -> "np.median"
         [] name = "first"  -> "iloc[0]"
         [] name = "last"   -> "iloc[-1]"
         [] OTHER           -> "np.mean"

\* The function a name stands for, or the ValueError of an unknown name.
agg_function(aggfunc) ==
    LET name == aggfunc_lower(aggfunc)
    IN CASE name = "sum"                  -> "np.sum"
         [] name = "mean" \/ name = "avg" -> "np.mean"
         [] name = "count"                -> "len"
         [] name = "min"                  -> "np.min"
         [] name = "max"                  -> "np.max"
         [] name = "median"               -> "np.median"
         [] name = "first"                -> "iloc[0]"
         [] name = "last"                 -> "iloc[-1]"
         [] OTHER                         -> Unsupported

\* The function applied to the value cells of one (index, pivot) group, in
\* row order: the numpy reductions skip the missing cells as the groupby
\* reductions of their names do, len counts the rows, and iloc takes the
\* first or last cell, missing or not.
pivot_agg(function, cells) ==
    CASE function = "np.sum"    -> aggregate_cells("sum", cells)
      [] function = "np.mean"   -> aggregate_cells("mean", cells)
      [] function = "len"       -> Num(Len(cells))
      [] function = "np.min"    -> aggregate_cells("min", cells)
      [] function = "np.max"    -> aggregate_cells("max", cells)
      [] function = "np.median" -> aggregate_cells("median", cells)
      [] function = "iloc[0]"   -> cells[1]
      [] function = "iloc[-1]"  -> cells[Len(cells)]

\* The groups of pivot_table: the (index, pivot) keys of the rows, without
\* the keys with a missing cell (dropna) and without the groups whose
\* aggregated value is missing (agged.dropna(how='all')).
pivot_groups(df, index, columns, values, function) ==
    {key \in row_keys(df, <<index, columns>>) :
        /\ ~HasNullKey(key)
        /\ ~IsNull(pivot_agg(function,
                             group_cells(df, <<index, columns>>, key, values)))}

\* The cells of a set of one-column keys in ascending order.
sorted_cells(cells) ==
    LET keys == SortKeys({<<c>> : c \in cells})
    IN [i \in 1..Len(keys) |-> keys[i][1]]

\* The pivot values in the order of their first row.
RECURSIVE pivot_columns_FirstSeen(_, _, _, _, _)
pivot_columns_FirstSeen(df, index, columns, values, function) ==
    IF df.rows = <<>> THEN <<>>
    ELSE LET n == Len(df.rows)
             before == pivot_columns_FirstSeen(
                          [df EXCEPT !.rows = SubSeq(df.rows, 1, n - 1)],
                          index, columns, values, function)
             cell == df.rows[n][columns]
             groups == pivot_groups(df, index, columns, values, function)
         IN IF \/ cell \in SeqToSet(before)
               \/ \A key \in groups : key[2] # cell
            THEN before
            ELSE Append(before, cell)

\* The labels of the new columns: the pivot values of the groups, sorted
\* (sort_index(axis=1)).
pivot_columns(df, index, columns, values, function) ==
    sorted_cells({key[2] :
        key \in pivot_groups(df, index, columns, values, function)})

\* The index values of the rows of the result, sorted (groupby sort).
pivot_index(df, index, columns, values, function) ==
    sorted_cells({key[1] :
        key \in pivot_groups(df, index, columns, values, function)})

\* pd.pivot_table(...).reset_index(): raises KeyError when one of the three
\* columns is missing; otherwise one row per index value and one cell per
\* pivot value, holding the aggregated value of the group, or fill_value
\* (a missing cell when it is None) where there is no group.
pivot_table(df, index, columns, values, function, fill_value) ==
    IF missing_columns(df, <<index, columns, values>>) # {}
    THEN [raises |-> TRUE, df |-> NoFrame]
    ELSE LET groups == pivot_groups(df, index, columns, values, function)
             cols == pivot_columns(df, index, columns, values, function)
             idx == pivot_index(df, index, columns, values, function)
             Cell(k, p) ==
                 IF <<k, p>> \in groups
                 THEN pivot_agg(function,
                                group_cells(df, <<index, columns>>, <<k, p>>,
                                            values))
                 ELSE fill_value
         IN [raises |-> FALSE,
             df |-> [index |-> <<index>>,
                     columns |-> cols,
                     rows |-> [i \in 1..Len(idx) |->
                                 [key |-> idx[i],
                                  cells |-> [j \in 1..Len(cols) |->
                                                Cell(idx[i], cols[j])]]]]]

\* pivot_data(df, index, columns, values, aggfunc, fill_value): the pivot
\* table, whether an exception reaches the caller, and the levels of the
\* records logged.
pivot_data(df, index, columns, values, aggfunc, fill_value) ==
    IF agg_function(aggfunc) = Unsupported
    THEN Failed(<<"error">>)
    ELSE LET out == pivot_table(df, index, columns, values,
                                agg_function(aggfunc), fill_value)
         IN IF out.raises THEN Failed(<<"info", "error">>)
            ELSE [df |-> out.df, raised |-> FALSE, log |-> <<"info", "info">>]

(***************************************************************************)
(* A call of pivot_data: the function name is resolved, then the table is  *)
(* read by pd.pivot_table.                                                 *)
(***************************************************************************)
PivotRowValues ==
    [k : {Num(1), Num(2), Null},
     p : TextCells \cup {Null},
     v : {Num(1), Num(3), Null}]

\* The dtypes a loader gives the columns: object for text and for a frame
\* without rows, float64 for numbers with a missing cell, int64 otherwise.
pivot_dtypes(rows) ==
    [c \in {"k", "p", "v"} |->
        IF rows = <<>> \/ c = "p" THEN "object"
        ELSE IF \E i \in 1..Len(rows) : IsNull(rows[i][c]) THEN "float64"
        ELSE "int64"]

PivotTables ==
    {[columns |-> <<"k", "p", "v">>, dtypes |-> pivot_dtypes(rows),
      rows |-> rows] : rows \in SeqsUpTo(PivotRowValues, MaxRows)}

PivotFunctions ==
    {"sum", "mean", "avg", "count", "min", "max", "median", "first", "last",
     "Sum", "LAST", "mode", "std"}

\* fill_value: None, or the number 0.
FillValues == {Null, Num(0)}

PivotCalls ==
    {[index |-> "k", aggfunc |-> f, fill_value |-> fv] :
        f \in PivotFunctions, fv \in FillValues}
    \cup {[index |-> "zz", aggfunc |-> "sum", fill_value |-> Null]}

InitPivot ==
    /\ \E t \in PivotTables, c \in PivotCalls :
          call = [fn |-> "pivot_data", df |-> t, index |-> c.index,
                  columns |-> "p", values |-> "v", aggfunc |-> c.aggfunc,
                  fill_value |-> c.fill_value]
    /\ pc = "call"
    /\ result = NoResult
    /\ InitServer

\* Lines 217-240: the name is looked up; an unknown name ends the call.
PivotResolvesAggfunc ==
    /\ pc = "call"
    /\ call.fn = "pivot_data"
    /\ IF agg_function(call.aggfunc) = Unsupported
       THEN /\ result' = Returned(pivot_data(call.df, call.index, call.columns,
                                             call.values, call.aggfunc,
                                             call.fill_value))
            /\ pc' = "done"
       ELSE /\ result' = [result EXCEPT !.log = <<"info">>]
            /\ pc' = "pivot_table"
    /\ UNCHANGED <<call, server>>

\* Lines 242-256: the table is pivoted and returned.
PivotTableReturns ==
    /\ pc = "pivot_table"
    /\ call.fn = "pivot_data"
    /\ result' = Returned(pivot_data(call.df, call.index, call.columns,
                                     call.values, call.aggfunc,
                                     call.fill_value))
    /\ pc' = "done"
    /\ UNCHANGED <<call, server>>

NextPivot == PivotResolvesAggfunc \/ PivotTableReturns

SpecPivot == InitPivot /\ [][NextPivot]_vars

(***************************************************************************)
(* transform_columns: the entries of the transformations dict are applied  *)
(* in dict order to a copy of the frame.  The types numeric, replace,      *)
(* categorical, bin, string (upper, lower) and math (add, subtract) are    *)
(* modelled; a call names each column at most once, as a dict does.        *)
(***************************************************************************)
Entry(column, type, params) ==
    [column |-> column, type |-> type, params |-> params]

\* The params of a config: the keys the modelled types read, with the
\* value None or [] for a key that is not given.
Params(operation, value, to_replace, bins, labels) ==
    [operation |-> operation, value |-> value, to_replace |-> to_replace,
     bins |-> bins, labels |-> labels, format |-> ""]

NoParams == Params("", Null, Null, <<>>, <<>>)

\* The params of a datetime_format config that gives a format string.
DateFormat(format) == [NoParams EXCEPT !.format = format]

\* str.lower() on the type names of the model.
type_lower(type) ==
    CASE type = "Numeric" -> "numeric"
      [] type = "BIN"     -> "bin"
      [] OTHER            -> type

\* The bin between the edges lo and hi: the interval (lo, hi] of pd.cut.
Interval(lo, hi) == [tag |-> "Interval", n |-> lo, d |-> hi, s |-> <<>>]

\* The frame with the cells of one column replaced, row by row.
with_column(df, column, cells, dtype) ==
    [df EXCEPT !.rows = [i \in 1..Len(df.rows) |->
                            [df.rows[i] EXCEPT ![column] = cells[i]]],
               !.dtypes = [df.dtypes EXCEPT ![column] = dtype]]

\* The column holds a text cell.
has_text(df, column) ==
    \E i \in 1..Len(df.rows) : df.rows[i][column].tag = "Text"

\* pd.to_numeric(errors='coerce'): a text that is no number becomes missing;
\* none of the texts of the model is a number.
to_numeric(cell) == IF cell.tag = "Text" THEN Null ELSE cell

\* Series.replace(to_replace, value) for one cell; the calls made here give
\* both.
replace_cell(cell, to_replace, value) ==
    IF ~IsNull(cell) /\ cell = to_replace THEN value ELSE cell

\* The place of the bin of pd.cut(bins=edges) that holds x, 0 for none: the
\* bins are (lo, hi], right=True and include_lowest=False being the defaults.
cut_place(edges, x) ==
    IF \E i \in 1..(Len(edges) - 1) : edges[i] < x /\ x <= edges[i + 1]
    THEN CHOOSE i \in 1..(Len(edges) - 1) : edges[i] < x /\ x <= edges[i + 1]
    ELSE 0

\* pd.cut raises ValueError for edges that do not increase, for labels that
\* are not one per bin, and TypeError for a column of text.
cut_raises(df, column, edges, labels) ==
    \/ has_text(df, column)
    \/ \E i \in 1..(Len(edges) - 1) : edges[i] >= edges[i + 1]
    \/ labels # <<>> /\ Len(labels) # Len(edges) - 1

\* pd.cut(column, bins=edges, labels=labels) for one numeric cell: its bin,
\* or its label when labels are given; missing outside every bin.
cut_cell(cell, edges, labels) ==
    LET place == cut_place(edges, cell.n)
    IN IF IsNull(cell) \/ place = 0 THEN Null
       ELSE IF labels # <<>> THEN labels[place]
       ELSE Interval(edges[place], edges[place + 1])

\* str.upper() and str.lower() on the characters of the model.
upper_char(c) ==
    CASE c = "a" -> "A" [] c = "e" -> "E" [] c = "n" -> "N" [] c = "o" -> "O"
      [] c = "x" -> "X" [] c = "y" -> "Y" [] OTHER -> c

lower_char(c) ==
    CASE c = "A" -> "a" [] c = "E" -> "e" [] c = "N" -> "n" [] c = "O" -> "o"
      [] c = "X" -> "x" [] c = "Y" -> "y" [] OTHER -> c

str_case(cell, operation) ==
    IF cell.tag # "Text" THEN cell
    ELSE Text([i \in 1..Len(cell.s) |->
                 IF operation = "upper" THEN upper_char(cell.s[i])
                 ELSE lower_char(cell.s[i])])

\* The .str accessor raises AttributeError on a column that is not of dtype
\* object.
str_raises(df, column) == df.dtypes[column] # "object"

\* column + value and column - value for one cell and a number.
math_cell(cell, operation, value) ==
    IF IsNull(cell) THEN Null
    ELSE IF operation = "add" THEN Num(cell.n + value.n)
    ELSE Num(cell.n - value.n)

\* A timestamp: the instant ns nanoseconds after the start of the year.
Timestamp(year, ns) == [tag |-> "Timestamp", n |-> year, d |-> ns, s |-> <<>>]

Digits == {"0", "1", "2", "3", "4", "5", "6", "7", "8", "9"}

digit_value(c) ==
    CASE c = "0" -> 0 [] c = "1" -> 1 [] c = "2" -> 2 [] c = "3" -> 3
      [] c = "4" -> 4 [] c = "5" -> 5 [] c = "6" -> 6 [] c = "7" -> 7
      [] c = "8" -> 8 [] OTHER -> 9

\* A text of four digits is a year, for the format %Y and for the format
\* pd.to_datetime infers; the other texts of the model are no date.
is_year(t) == Len(t) = 4 /\ \A i \in 1..4 : t[i] \in Digits

year_of(t) ==
    1000 * digit_value(t[1]) + 100 * digit_value(t[2])
        + 10 * digit_value(t[3]) + digit_value(t[4])

\* pd.to_datetime can convert the cell: a missing cell (to NaT), a year
\* text, and a number when no format is given (nanoseconds since 1970; with
\* the format %Y the numbers of the model, one digit long, do not match).
datetime_parsable(cell, format) ==
    CASE cell.tag = "Null" -> TRUE
      [] cell.tag = "Text" -> is_year(cell.s)
      [] cell.tag = "Num"  -> format = ""
      [] OTHER             -> TRUE

\* pd.to_datetime for one cell it can convert.
to_datetime(cell) ==
    CASE cell.tag = "Text" -> Timestamp(year_of(cell.s), 0)
      [] cell.tag = "Num"  -> Timestamp(1970, cell.n)
      [] OTHER             -> cell

\* pd.to_datetime is called with the default errors='raise': one cell it
\* cannot convert raises ValueError for the whole column.
to_datetime_raises(df, column, format) ==
    \E i \in 1..Len(df.rows) : ~datetime_parsable(df.rows[i][column], format)

\* A step of the loop: the frame and the level of the record logged.
Step(df, level) == [df |-> df, log |-> <<level>>]

\* An entry of an unsupported type blanks its column.
transform_entry_UnsupportedBlanks(df, entry) ==
    IF entry.column \notin SeqToSet(df.columns)
    THEN Step(df, "warning")
    ELSE Step(with_column(df, entry.column,
                          [i \in 1..Len(df.rows) |-> Null], "float64"),
              "warning")

\* One pass of the loop body (lines 397-482) for an entry: a missing column
\* and an unsupported type are skipped with a warning, an exception raised
\* by the transformation is logged as an error and leaves the column as it
\* was, and a transformation that ran is logged as info.
transform_entry(df, entry) ==
    LET column == entry.column
        type == type_lower(entry.type)
        params == entry.params
        cells == Column(df, column)
        Map(F(_), dtype) ==
            Step(with_column(df, column,
                             [i \in 1..Len(cells) |-> F(cells[i])], dtype),
                 "info")
    IN IF column \notin SeqToSet(df.columns) THEN Step(df, "warning")
       ELSE CASE type = "datetime_format" ->
                   IF to_datetime_raises(df, column, params.format)
                   THEN Step(df, "error")
                   ELSE Map(to_datetime, "datetime64[ns]")
              [] type = "numeric" ->
                   Map(to_numeric,
                       IF has_text(df, column) THEN "float64"
                       ELSE df.dtypes[column])
              [] type = "replace" ->
                   LET F(c) == replace_cell(c, params.to_replace, params.value)
                   IN Map(F, df.dtypes[column])
              [] type = "categorical" ->
                   LET F(c) == c IN Map(F, "category")
              [] type = "bin" ->
                   IF params.bins = <<>> THEN Step(df, "info")
                   ELSE IF cut_raises(df, column, params.bins, params.labels)
                   THEN Step(df, "error")
                   ELSE LET F(c) == cut_cell(c, params.bins, params.labels)
                        IN Map(F, "category")
              [] type = "string" ->
                   IF params.operation \notin {"upper", "lower"}
                   THEN Step(df, "info")
                   ELSE IF str_raises(df, column) THEN Step(df, "error")
                   ELSE LET F(c) == str_case(c, params.operation)
                        IN Map(F, "object")
              [] type = "math" ->
                   IF params.operation \notin {"add", "subtract"}
                   THEN Step(df, "info")
                   ELSE IF has_text(df, column) THEN Step(df, "error")
                   ELSE LET F(c) == math_cell(c, params.operation,
                                              params.value)
                        IN Map(F, df.dtypes[column])
              [] OTHER -> Step(df, "warning")

\* The loop of lines 396-482 over the entries in dict order.
RECURSIVE transform_loop(_, _)
transform_loop(df, transformations) ==
    IF transformations = <<>> THEN [df |-> df, log |-> <<>>]
    ELSE LET step == transform_entry(df, Head(transformations))
             rest == transform_loop(step.df, Tail(transformations))
         IN [df |-> rest.df, log |-> step.log \o rest.log]

\* transform_columns(df, transformations): the transformed copy, which is
\* always returned, and the levels of the records logged.
transform_columns(df, transformations) ==
    LET out == transform_loop(df, transformations)
    IN [df |-> out.df, raised |-> FALSE, log |-> out.log]

(***************************************************************************)
(* A call of transform_columns and its return.                             *)
(***************************************************************************)
BinEdges == <<1, 2, 3>>

Bin(edges, labels) == Params("", Null, Null, edges, labels)

Math(operation) == Params(operation, Num(1), Null, <<>>, <<>>)

\* Entries for the numeric column a.
EntriesOfA ==
    {Entry("a", "numeric", NoParams),
     Entry("a", "Numeric", NoParams),
     Entry("a", "BIN", Bin(BinEdges, <<>>)),
     Entry("a", "replace", Params("", Num(2), Num(1), <<>>, <<>>)),
     Entry("a", "categorical", NoParams),
     Entry("a", "math", Math("add")),
     Entry("a", "math", Math("subtract")),
     Entry("a", "math", Math("power")),
     Entry("a", "bin", Bin(BinEdges, <<>>)),
     Entry("a", "bin", Bin(BinEdges, <<TextX, TextNa>>)),
     Entry("a", "bin", Bin(BinEdges, <<TextX>>)),
     Entry("a", "bin", Bin(<<0, 2>>, <<>>)),
     Entry("a", "bin", Bin(<<2, 1>>, <<>>)),
     Entry("a", "bin", NoParams),
     Entry("a", "string", Params("upper", Null, Null, <<>>, <<>>)),
     Entry("a", "scale", NoParams),
     Entry("a", "datetime_format", NoParams),
     Entry("a", "datetime_format", DateFormat("%Y")),
     Entry("a", "", NoParams)}

\* Entries for the text column b.
EntriesOfB ==
    {Entry("b", "numeric", NoParams),
     Entry("b", "replace", Params("", TextNa, TextX, <<>>, <<>>)),
     Entry("b", "string", Params("upper", Null, Null, <<>>, <<>>)),
     Entry("b", "string", Params("lower", Null, Null, <<>>, <<>>)),
     Entry("b", "string", Params("title", Null, Null, <<>>, <<>>)),
     Entry("b", "math", Math("add")),
     Entry("b", "bin", Bin(BinEdges, <<>>)),
     Entry("b", "datetime_format", NoParams),
     Entry("b", "datetime_format", DateFormat("%Y")),
     Entry("b", "scale", NoParams)}

\* Entries for a column the frames do not have.
EntriesOfC ==
    {Entry("c", "numeric", NoParams), Entry("c", "scale", NoParams)}

TransformEntries == EntriesOfA \cup EntriesOfB \cup EntriesOfC

\* The entries that batches of two and more are made of.
BatchEntries ==
    {Entry("a", "math", Math("add")),
     Entry("a", "bin", Bin(BinEdges, <<>>)),
     Entry("a", "scale", NoParams),
     Entry("b", "string", Params("upper", Null, Null, <<>>, <<>>)),
     Entry("b", "scale", NoParams),
     Entry("c", "numeric", NoParams)}

\* A dict has one entry per key.
distinct_columns(entries) ==
    \A i, j \in 1..Len(entries) :
        i # j => entries[i].column # entries[j].column

Transformations ==
    SeqsUpTo(TransformEntries, 1)
    \cup {entries \in SeqsFromTo(BatchEntries, 2, MaxTransforms) :
             distinct_columns(entries)}

\* Tables whose text column holds dates: the year 2020, a text that is no
\* date, or nothing.
TextYear == Text(<<"2", "0", "2", "0">>)

DateRowValues == [a : {Num(1), Null}, b : {TextYear, TextX, Null}]

DateTables == {Frame(rows) : rows \in SeqsUpTo(DateRowValues, MaxRows)}

InitTransform ==
    /\ \E t \in Tables \cup {ScenarioTable} \cup DateTables,
          entries \in Transformations :
          call = [fn |-> "transform_columns", df |-> t,
                  transformations |-> entries]
    /\ pc = "call"
    /\ result = NoResult
    /\ InitServer

TransformColumnsReturns ==
    /\ pc = "call"
    /\ call.fn = "transform_columns"
    /\ result' = Returned(transform_columns(call.df, call.transformations))
    /\ pc' = "done"
    /\ UNCHANGED <<call, server>>

NextTransform == TransformColumnsReturns

SpecTransform == InitTransform /\ [][NextTransform]_vars

(***************************************************************************)
(* ResourceManager (resources/manager.py): the dicts connections, datasets *)
(* and visualizations.  A method is an operator from the manager and the   *)
(* arguments to the manager after the call (rm) and the value returned     *)
(* (ret).  uuid.uuid4() gives an identifier that was never given before    *)
(* (the number of the call) and datetime.now() the time of the call.       *)
(***************************************************************************)
MaxCalls == 3

MaxIds == 2

\* None, as an argument or a returned value.
None == "<None>"

Keys(dict) == {dict[i].key : i \in 1..Len(dict)}

\* dict[key], for a key of the dict.
Get(dict, key) ==
    dict[CHOOSE i \in 1..Len(dict) : dict[i].key = key].value

\* dict[key] = value: a new key goes to the end, a known key keeps its place.
Put(dict, key, value) ==
    IF key \in Keys(dict)
    THEN [i \in 1..Len(dict) |->
             IF dict[i].key = key THEN [key |-> key, value |-> value]
             ELSE dict[i]]
    ELSE Append(dict, [key |-> key, value |-> value])

\* del dict[key].
Del(dict, key) ==
    LET Other(item) == item.key # key IN SelectSeq(dict, Other)

\* record[key] = value on a dict with text keys.
SetItem(record, key, value) ==
    [k \in DOMAIN record \cup {key} |-> IF k = key THEN value ELSE record[k]]

uuid4(calls) == Len(calls) + 1

get_timestamp(calls) == Len(calls)

\* Line 55: the params with the value of the key password masked.
safe_params_Unmasked(connection_params) == connection_params

safe_params(connection_params) ==
    [k \in DOMAIN connection_params |->
        IF k # "password" THEN connection_params[k] ELSE "********"]

register_connection(rm, connection_id, now, connection_type, connection_params) ==
    [rm |-> [rm EXCEPT !.connections =
                Put(@, connection_id,
                    [id |-> connection_id, type |-> connection_type,
                     params |-> connection_params,
                     safe_params |-> safe_params(connection_params),
                     status |-> "created", created_at |-> now])],
     ret |-> connection_id]

update_connection_status_Upsert(rm, connection_id, status, error) ==
    [rm |-> [rm EXCEPT !.connections =
                Put(@, connection_id, [status |-> status])],
     ret |-> TRUE]

update_connection_status(rm, connection_id, status, error) ==
    IF connection_id \notin Keys(rm.connections)
    THEN [rm |-> rm, ret |-> FALSE]
    ELSE LET conn == Get(rm.connections, connection_id)
             updated == [conn EXCEPT !.status = status]
         IN [rm |-> [rm EXCEPT !.connections =
                        Put(@, connection_id,
                            IF error # None
                            THEN SetItem(updated, "error", error)
                            ELSE updated)],
             ret |-> TRUE]

\* Lines 114-123: one item per connection, with the masked params.
list_connections(rm) ==
    [i \in 1..Len(rm.connections) |->
        LET conn == rm.connections[i].value
        IN [id |-> conn.id, type |-> conn.type, params |-> conn.safe_params,
            status |-> conn.status, created_at |-> conn.created_at]]

register_dataset(rm, dataset_id, now, data, metadata, source_connection_id) ==
    [rm |-> [rm EXCEPT !.datasets =
                Put(@, dataset_id,
                    [id |-> dataset_id, data |-> data, metadata |-> metadata,
                     source_connection_id |-> source_connection_id,
                     transformations |-> <<>>, created_at |-> now])],
     ret |-> dataset_id]

\* The record line 177 appends.
transformation_record(transformation_type, transformation_params, now) ==
    [type |-> transformation_type, params |-> transformation_params,
     applied_at |-> now]

add_transformation_Prepends(rm, dataset_id, now, transformation_type, transformation_params) ==
    IF dataset_id \notin Keys(rm.datasets)
    THEN [rm |-> rm, ret |-> FALSE]
    ELSE LET dataset == Get(rm.datasets, dataset_id)
         IN [rm |-> [rm EXCEPT !.datasets =
                        Put(@, dataset_id,
                            [dataset EXCEPT !.transformations =
                                <<transformation_record(
                                    transformation_type,
                                    transformation_params, now)>> \o @])],
             ret |-> TRUE]

add_transformation_Twice(rm, dataset_id, now, transformation_type, transformation_params) ==
    IF dataset_id \notin Keys(rm.datasets)
    THEN [rm |-> rm, ret |-> FALSE]
    ELSE LET dataset == Get(rm.datasets, dataset_id)
             record == transformation_record(transformation_type,
                                             transformation_params, now)
         IN [rm |-> [rm EXCEPT !.datasets =
                        Put(@, dataset_id,
                            [dataset EXCEPT !.transformations =
                                @ \o <<record, record>>])],
             ret |-> TRUE]

add_transformation(rm, dataset_id, now, transformation_type, transformation_params) ==
    IF dataset_id \notin Keys(rm.datasets)
    THEN [rm |-> rm, ret |-> FALSE]
    ELSE LET dataset == Get(rm.datasets, dataset_id)
         IN [rm |-> [rm EXCEPT !.datasets =
                        Put(@, dataset_id,
                            [dataset EXCEPT !.transformations =
                                Append(@, transformation_record(
                                              transformation_type,
                                              transformation_params, now))])],
             ret |-> TRUE]

update_dataset(rm, dataset_id, new_data) ==
    IF dataset_id \notin Keys(rm.datasets)
    THEN [rm |-> rm, ret |-> FALSE]
    ELSE LET dataset == Get(rm.datasets, dataset_id)
         IN [rm |-> [rm EXCEPT !.datasets =
                        Put(@, dataset_id, [dataset EXCEPT !.data = new_data])],
             ret |-> TRUE]

\* self.datasets.get(dataset_id).
get_dataset(rm, dataset_id) ==
    IF dataset_id \in Keys(rm.datasets) THEN Get(rm.datasets, dataset_id)
    ELSE None

register_visualization(rm, viz_id, now, dataset_id, chart_type, config, image_path) ==
    [rm |-> [rm EXCEPT !.visualizations =
                Put(@, viz_id,
                    [id |-> viz_id, dataset_id |-> dataset_id,
                     chart_type |-> chart_type, config |-> config,
                     image_path |-> image_path, created_at |-> now])],
     ret |-> viz_id]

(***************************************************************************)
(* Calls of the ResourceManager methods, one after the other.  The twin is *)
(* a second manager that is given the same calls, with other passwords.    *)
(***************************************************************************)
Ids == 1..MaxIds

Passwords == {"p1", "p2"}

ConnectionParams ==
    {[host |-> "h"]} \cup {[host |-> "h", password |-> pw] : pw \in Passwords}

\* The params that differ from connection_params in the password at most.
TwinParams(connection_params) ==
    IF "password" \in DOMAIN connection_params
    THEN {[connection_params EXCEPT !.password = pw] : pw \in Passwords}
    ELSE {connection_params}

RegistryTables ==
    {Frame(<<[a |-> Num(1), b |-> TextX]>>),
     Frame(<<[a |-> Num(2), b |-> Null]>>)}

\* The operation add one to column a, as a lineage entry.
AddOne ==
    [type |-> "transform",
     params |-> <<Entry("a", "math", Math("add"))>>]

\* The call c returns: out and twin_out are what the method gives on the
\* manager and on its twin.
Responds(c, out, twin_out) ==
    /\ Len(history) < MaxCalls
    /\ call' = c
    /\ result' = out.ret
    /\ resource_manager' = out.rm
    /\ twin' = twin_out.rm
    /\ history' = Append(history, [call |-> c, ret |-> out.ret])
    /\ UNCHANGED <<pc, memo_manager>>

InitRegistry ==
    /\ call = [fn |-> "__init__"]
    /\ pc = "ready"
    /\ result = None
    /\ InitServer

RegisterConnection ==
    \E params \in ConnectionParams : \E twin_params \in TwinParams(params) :
        LET id == uuid4(history)
            now == get_timestamp(history)
        IN Responds([fn |-> "register_connection", connection_type |-> "sql",
                     connection_params |-> params],
                    register_connection(resource_manager, id, now, "sql",
                                        params),
                    register_connection(twin, id, now, "sql", twin_params))

UpdateConnectionStatus ==
    \E id \in Ids, error \in {None, "refused"} :
        LET status == IF error = None THEN "connected" ELSE "error"
        IN Responds([fn |-> "update_connection_status",
                     connection_id |-> id, status |-> status,
                     error |-> error],
                    update_connection_status(resource_manager, id, status,
                                             error),
                    update_connection_status(twin, id, status, error))

RegisterDataset ==
    \E data \in RegistryTables :
        LET id == uuid4(history)
            now == get_timestamp(history)
            metadata == [rows |-> Len(data.rows)]
        IN Responds([fn |-> "register_dataset", data |-> data],
                    register_dataset(resource_manager, id, now, data,
                                     metadata, None),
                    register_dataset(twin, id, now, data, metadata, None))

AddTransformation ==
    \E id \in Ids :
        LET now == get_timestamp(history)
        IN Responds([fn |-> "add_transformation", dataset_id |-> id,
                     transformation_type |-> AddOne.type,
                     transformation_params |-> AddOne.params],
                    add_transformation(resource_manager, id, now,
                                       AddOne.type, AddOne.params),
                    add_transformation(twin, id, now, AddOne.type,
                                       AddOne.params))

UpdateDataset ==
    \E id \in Ids, new_data \in RegistryTables :
        Responds([fn |-> "update_dataset", dataset_id |-> id,
                  new_data |-> new_data],
                 update_dataset(resource_manager, id, new_data),
                 update_dataset(twin, id, new_data))

RegisterVisualization ==
    \E dataset_id \in Ids :
        LET id == uuid4(history)
            now == get_timestamp(history)
        IN Responds([fn |-> "register_visualization",
                     dataset_id |-> dataset_id],
                    register_visualization(resource_manager, id, now,
                                           dataset_id, "bar", [x |-> "a"],
                                           "chart.png"),
                    register_visualization(twin, id, now, dataset_id, "bar",
                                           [x |-> "a"], "chart.png"))

NextRegistry ==
    \/ RegisterConnection
    \/ UpdateConnectionStatus
    \/ RegisterDataset
    \/ AddTransformation
    \/ UpdateDataset
    \/ RegisterVisualization

SpecRegistry == InitRegistry /\ [][NextRegistry]_vars

(***************************************************************************)
(* applyOperation (spec section 4.6): a caller applies an operation to a   *)
(* registered dataset by reading the current table (get_dataset),          *)
(* computing the new table (a DataProcessor operation), storing it         *)
(* (update_dataset) and appending the lineage record (add_transformation). *)
(* Two callers run at the same time; a step of a caller is one of those    *)
(* calls, and the ResourceManager has no lock that a caller could hold     *)
(* over them.                                                              *)
(***************************************************************************)
Callers == {1, 2}

\* An aggregation grouped by a column the tables do not have: it raises.
BadAggregate ==
    [type |-> "aggregate",
     params |-> [group_by |-> GroupByStr("c"),
                 aggregations |-> <<Agg("a", "sum")>>]]

ApplyOperations == {AddOne, BadAggregate}

\* The operation of the kind named, computed on the table.
run_operation(table, kind, params) ==
    IF kind = "transform" THEN transform_columns(table, params)
    ELSE aggregate_data(table, params.group_by, params.aggregations)

NoCall ==
    [dataset_id |-> 0, kind |-> "", params |-> <<>>, table |-> NoFrame,
     new_table |-> NoFrame]

NoOutcome == [error |-> FALSE, table |-> NoFrame]

InitApply ==
    /\ call = [p \in Callers |-> NoCall]
    /\ pc = [p \in Callers |-> "idle"]
    /\ result = [p \in Callers |-> NoOutcome]
    /\ InitServer

\* A dataset is loaded and registered.
LoadsDataset ==
    /\ Len(resource_manager.datasets) < MaxIds
    /\ \E data \in RegistryTables :
          LET out == register_dataset(resource_manager, uuid4(history),
                                      get_timestamp(history), data,
                                      [rows |-> Len(data.rows)], None)
          IN /\ resource_manager' = out.rm
             /\ history' = Append(history,
                                  [call |-> [fn |-> "register_dataset",
                                             data |-> data],
                                   ret |-> out.ret])
    /\ UNCHANGED <<call, pc, result, twin, memo_manager>>

\* The caller takes an operation for a registered dataset and reads the
\* current table.
ReadsTable(p) ==
    /\ pc[p] = "idle"
    /\ \E d \in Keys(resource_manager.datasets), op \in ApplyOperations :
          call' = [call EXCEPT ![p] =
                      [dataset_id |-> d, kind |-> op.type,
                       params |-> op.params,
                       table |-> get_dataset(resource_manager, d).data,
                       new_table |-> NoFrame]]
    /\ pc' = [pc EXCEPT ![p] = "compute"]
    /\ UNCHANGED <<result, server>>

\* The operation runs on the table read: it gives the new table, or raises
\* and the error goes to the caller.
ComputesTable(p) ==
    /\ pc[p] = "compute"
    /\ LET out == run_operation(call[p].table, call[p].kind, call[p].params)
       IN IF out.raised
          THEN /\ result' = [result EXCEPT ![p].error = TRUE]
               /\ pc' = [pc EXCEPT ![p] = "failed"]
               /\ UNCHANGED call
          ELSE /\ call' = [call EXCEPT ![p].new_table = out.df]
               /\ pc' = [pc EXCEPT ![p] = "store"]
               /\ UNCHANGED result
    /\ UNCHANGED server

StoresTable(p) ==
    /\ pc[p] = "store"
    /\ LET out == update_dataset(resource_manager, call[p].dataset_id,
                                 call[p].new_table)
       IN /\ resource_manager' = out.rm
          /\ history' = Append(history,
                               [call |-> [fn |-> "update_dataset",
                                          dataset_id |-> call[p].dataset_id,
                                          new_data |-> call[p].new_table],
                                ret |-> out.ret])
    /\ pc' = [pc EXCEPT ![p] = "append"]
    /\ UNCHANGED <<call, result, twin, memo_manager>>

AppendsLineage(p) ==
    /\ pc[p] = "append"
    /\ LET out == add_transformation(resource_manager, call[p].dataset_id,
                                     get_timestamp(history), call[p].kind,
                                     call[p].params)
       IN /\ resource_manager' = out.rm
          /\ history' = Append(history,
                               [call |-> [fn |-> "add_transformation",
                                          dataset_id |-> call[p].dataset_id,
                                          transformation_type |-> call[p].kind,
                                          transformation_params
                                             |-> call[p].params],
                                ret |-> out.ret])
    /\ result' = [result EXCEPT ![p].table = call[p].new_table]
    /\ pc' = [pc EXCEPT ![p] = "done"]
    /\ UNCHANGED <<call, twin, memo_manager>>

NextApply ==
    \/ LoadsDataset
    \/ \E p \in Callers : ReadsTable(p)
    \/ \E p \in Callers : ComputesTable(p)
    \/ \E p \in Callers : StoresTable(p)
    \/ \E p \in Callers : AppendsLineage(p)

SpecApply == InitApply /\ [][NextApply]_vars

(***************************************************************************)
(* MemoResourceManager (resources/memo.py) and the tools of server.py that *)
(* call it, with the add_insight tool.  A tool call is one step: call is   *)
(* the tool and its arguments, result what the tool returns or the         *)
(* exception it raises, and history the calls with what the manager        *)
(* returned.                                                               *)
(***************************************************************************)
create_memo(mm, memo_id, content) ==
    [mm |-> [mm EXCEPT !.memory = Put(@, memo_id, content)], ret |-> memo_id]

\* self.memory.get(memo_id).
get_memo(mm, memo_id) ==
    IF memo_id \in Keys(mm.memory) THEN Get(mm.memory, memo_id) ELSE None

list_memos(mm) ==
    [i \in 1..Len(mm.memory) |->
        [id |-> mm.memory[i].key, content |-> mm.memory[i].value]]

delete_memo_KeepsMemo(mm, memo_id) ==
    [mm |-> mm, ret |-> memo_id \in Keys(mm.memory)]

delete_memo(mm, memo_id) ==
    IF memo_id \in Keys(mm.memory)
    THEN [mm |-> [mm EXCEPT !.memory = Del(@, memo_id)], ret |-> TRUE]
    ELSE [mm |-> mm, ret |-> FALSE]

\* The methods the class ResourceManager defines (lines 22-324).
ResourceManagerMethods ==
    {"__init__", "register_connection", "update_connection_status",
     "get_connection", "list_connections", "register_dataset",
     "add_transformation", "update_dataset", "get_dataset",
     "register_visualization", "get_visualization", "list_visualizations",
     "export_visualization_config", "_get_timestamp", "cleanup_resources"}

\* What a tool gives when the exception leaves it.
ToolRaises(exception) == [raised |-> exception]

\* The add_insight tool (lines 116-132): the attribute add_insight is
\* looked up on the resource manager and called before anything is returned.
add_insight(visualization_uri, insight) ==
    IF "add_insight" \notin ResourceManagerMethods
    THEN ToolRaises("AttributeError")
    ELSE [success |-> TRUE, message |-> "Insight added to memo"]

MemoIds == 1..MaxCalls

MemoContents == {"m1", "m2"}

VisualizationUris == {"some/uri/to/visualization", ""}

Insights == {"This is a business insight.", ""}

\* The tool call c returns out; the manager call in it gave ret and left the
\* memo manager mm.
ToolReturns(c, out, ret, mm) ==
    /\ Len(history) < MaxCalls
    /\ call' = c
    /\ result' = out
    /\ memo_manager' = mm
    /\ history' = Append(history, [call |-> c, ret |-> ret])
    /\ UNCHANGED <<pc, resource_manager, twin>>

InitTools ==
    /\ call = [fn |-> "__init__"]
    /\ pc = "ready"
    /\ result = None
    /\ InitServer

CreateMemo ==
    \E content \in MemoContents :
        LET out == create_memo(memo_manager, uuid4(history), content)
        IN ToolReturns([fn |-> "create_memo", content |-> content],
                       [success |-> TRUE, memo_id |-> out.ret],
                       out.ret, out.mm)

GetMemo ==
    \E memo_id \in MemoIds :
        LET content == get_memo(memo_manager, memo_id)
        IN ToolReturns([fn |-> "get_memo", memo_id |-> memo_id],
                       IF content = None
                       THEN [success |-> FALSE, message |-> "Memo not found"]
                       ELSE [success |-> TRUE, content |-> content],
                       content, memo_manager)

ListMemos ==
    ToolReturns([fn |-> "list_memos"], list_memos(memo_manager),
                list_memos(memo_manager), memo_manager)

DeleteMemo ==
    \E memo_id \in MemoIds :
        LET out == delete_memo(memo_manager, memo_id)
        IN ToolReturns([fn |-> "delete_memo", memo_id |-> memo_id],
                       [success |-> out.ret,
                        message |-> IF out.ret THEN "Memo deleted"
                                    ELSE "Memo not found"],
                       out.ret, out.mm)

AddInsight ==
    \E visualization_uri \in VisualizationUris, insight \in Insights :
        LET out == add_insight(visualization_uri, insight)
        IN ToolReturns([fn |-> "add_insight",
                        visualization_uri |-> visualization_uri,
                        insight |-> insight],
                       out, out, memo_manager)

NextTools ==
    \/ CreateMemo
    \/ GetMemo
    \/ ListMemos
    \/ DeleteMemo
    \/ AddInsight

SpecServer == InitTools /\ [][NextTools]_vars

(***************************************************************************)
(* clean_data: drop_duplicates, dropna, drop, rename and fillna of pandas, *)
(* each on the frame the step before has left.  A list or dict that is not *)
(* given (None) is the empty one: the code tests `if drop_columns:`.       *)
(***************************************************************************)
\* An empty dict of names, or an option that is None.
NoNames == [k \in {} |-> ""]

\* DataFrame.drop_duplicates(): the first of equal rows is kept; missing
\* cells count as equal.
drop_duplicates(df) ==
    BoolIndex(df, [i \in 1..Len(df.rows) |->
                      \A j \in 1..(i - 1) : df.rows[j] # df.rows[i]])

\* DataFrame.dropna(): the rows without a missing cell.
dropna(df) ==
    BoolIndex(df, [i \in 1..Len(df.rows) |->
                      \A c \in SeqToSet(df.columns) : ~IsNull(df.rows[i][c])])

\* DataFrame.drop(columns=names), for names of the frame.
drop(df, names) ==
    LET Kept(c) == c \notin names
        columns == SelectSeq(df.columns, Kept)
    IN [columns |-> columns,
        dtypes |-> [c \in SeqToSet(columns) |-> df.dtypes[c]],
        rows |-> [i \in 1..Len(df.rows) |->
                     [c \in SeqToSet(columns) |-> df.rows[i][c]]]]

\* The new name of a column under the mapping.
renamed(mapping, c) == IF c \in DOMAIN mapping THEN mapping[c] ELSE c

\* DataFrame.rename(columns=mapping); the new names are names the frame does
\* not have.
rename(df, mapping) ==
    LET columns == [i \in 1..Len(df.columns) |->
                       renamed(mapping, df.columns[i])]
        Old(c) == CHOOSE o \in SeqToSet(df.columns) : renamed(mapping, o) = c
    IN [columns |-> columns,
        dtypes |-> [c \in SeqToSet(columns) |-> df.dtypes[Old(c)]],
        rows |-> [i \in 1..Len(df.rows) |->
                     [c \in SeqToSet(columns) |-> df.rows[i][Old(c)]]]]

\* DataFrame.fillna(values): a missing cell of a column named in values gets
\* the value; a float64 column that is filled with text becomes object.
fillna(df, values) ==
    LET Filled(c) ==
            c \in DOMAIN values
               /\ \E i \in 1..Len(df.rows) : IsNull(df.rows[i][c])
    IN [columns |-> df.columns,
        dtypes |-> [c \in SeqToSet(df.columns) |->
                       IF Filled(c) /\ values[c].tag = "Text" THEN "object"
                       ELSE df.dtypes[c]],
        rows |-> [i \in 1..Len(df.rows) |->
                     [c \in SeqToSet(df.columns) |->
                         IF c \in DOMAIN values /\ IsNull(df.rows[i][c])
                         THEN values[c]
                         ELSE df.rows[i][c]]]]

\* The items of a dict whose key is a column of the frame.
valid_items(dict, df) ==
    [k \in DOMAIN dict \cap SeqToSet(df.columns) |-> dict[k]]

\* Lines 352 and 363: the fills whose key is a column of the frame as it is
\* after the renaming.
valid_fills_OfInput(fill_na, df, result_df) == valid_items(fill_na, df)

valid_fills(fill_na, df, result_df) == valid_items(fill_na, result_df)

\* The level of the record a step logs: info when it has something valid to
\* do, a warning for names that the frame passed in does not have.
step_log(given, valid, invalid) ==
    (IF given /\ valid THEN <<"info">> ELSE <<>>)
        \o (IF given /\ invalid THEN <<"warning">> ELSE <<>>)

\* clean_data (lines 292-364).  No step is inside a try block; none of the
\* steps raises on the frames and options of the model.
clean_data(df, drop_dups, drop_na, drop_columns, rename_columns, fill_na) ==
    LET df1 == IF drop_dups THEN drop_duplicates(df) ELSE df
        df2 == IF drop_na THEN dropna(df1) ELSE df1
        valid_columns == SeqToSet(drop_columns) \cap SeqToSet(df2.columns)
        df3 == IF valid_columns # {} THEN drop(df2, valid_columns) ELSE df2
        valid_renames == valid_items(rename_columns, df3)
        df4 == IF DOMAIN valid_renames # {} THEN rename(df3, valid_renames)
               ELSE df3
        fills == valid_fills(fill_na, df, df4)
        df5 == IF DOMAIN fills # {} THEN fillna(df4, fills) ELSE df4
        Unknown(names) == names \ SeqToSet(df.columns) # {}
    IN [df |-> df5, raised |-> FALSE,
        log |-> (IF drop_dups THEN <<"info">> ELSE <<>>)
                \o (IF drop_na THEN <<"info">> ELSE <<>>)
                \o step_log(drop_columns # <<>>, valid_columns # {},
                            Unknown(SeqToSet(drop_columns)))
                \o step_log(DOMAIN rename_columns # {},
                            DOMAIN valid_renames # {},
                            Unknown(DOMAIN rename_columns))
                \o step_log(DOMAIN fill_na # {}, DOMAIN fills # {},
                            Unknown(DOMAIN fill_na))
                \o <<"info">>]

(***************************************************************************)
(* A call of clean_data and its return.                                    *)
(***************************************************************************)
CleanRowValues == [a : {Num(1), Null}, b : {TextX, Null}]

CleanTables == {Frame(rows) : rows \in SeqsUpTo(CleanRowValues, MaxRows + 1)}

DropColumns ==
    {<<>>, <<"a">>, <<"b">>, <<"c">>, <<"z">>, <<"a", "z">>, <<"a", "b">>}

RenameColumns ==
    {NoNames, [a |-> "c"], [z |-> "c"], [b |-> "c", z |-> "d"],
     [a |-> "c", b |-> "d"]}

FillNa ==
    {NoNames, [a |-> Num(0)], [b |-> TextX], [c |-> Num(0)], [z |-> Num(0)],
     [a |-> Num(0), c |-> TextX], [c |-> Num(0), d |-> TextX]}

InitClean ==
    /\ \E t \in CleanTables, dups \in BOOLEAN, na \in BOOLEAN,
          cols \in DropColumns, names \in RenameColumns, fills \in FillNa :
          call = [fn |-> "clean_data", df |-> t, drop_duplicates |-> dups,
                  drop_na |-> na, drop_columns |-> cols,
                  rename_columns |-> names, fill_na |-> fills]
    /\ pc = "call"
    /\ result = NoResult
    /\ InitServer

CleanDataReturns ==
    /\ pc = "call"
    /\ call.fn = "clean_data"
    /\ result' = Returned(clean_data(call.df, call.drop_duplicates,
                                     call.drop_na, call.drop_columns,
                                     call.rename_columns, call.fill_na))
    /\ pc' = "done"
    /\ UNCHANGED <<call, server>>

NextClean == CleanDataReturns

SpecClean == InitClean /\ [][NextClean]_vars

(***************************************************************************)
(* Properties of filter_data.                                              *)
(***************************************************************************)
FilterDone == pc = "done" /\ call.fn = "filter_data"

HasColumn(df, c) == c.column \in SeqToSet(df.columns)

\* A cell equals a value: same type, same content, and not missing.
CellEquals(c, v) == ~IsNull(c) /\ c = v

\* C1: filter_data(T, C) raises nothing and has at most as many rows as T;
\* with no condition the result is T itself, rows, columns and dtypes.
C1_FilterNeverAddsRows ==
    FilterDone =>
        /\ ~result.raised
        /\ Len(result.df.rows) <= Len(call.df.rows)
        /\ (call.filters = <<>> => result.df = call.df)

C1_Witness ==
    /\ FilterDone
    /\ call.filters # <<>>
    /\ Len(result.df.rows) = 1
    /\ Len(call.df.rows) = 2

\* C2 as stated: on the scenario table the condition {column: b, operator:
\* eq, value: x} yields the rows 1 and 3, the rows whose cell b equals x.
C2_EqNameKeepsEqualRows ==
    (/\ FilterDone
     /\ call.df = ScenarioTable
     /\ call.filters = <<Cond("b", "eq", Scalar(TextX))>>)
    => result.df.rows = <<[a |-> Num(1), b |-> TextX],
                          [a |-> Num(3), b |-> TextX]>>

\* C2 (amended): a single condition with the operator = (or ==) and a
\* value that is not missing keeps exactly the rows whose cell in the column
\* equals the value, in their order; on the scenario table the condition
\* {column: b, operator: =, value: x} yields the rows 1 and 3.
C2_EqualsSignKeepsEqualRows ==
    (/\ FilterDone
     /\ Len(call.filters) = 1
     /\ call.filters[1].operator \in {"=", "=="}
     /\ HasColumn(call.df, call.filters[1]))
    => LET c == call.filters[1]
           Keep(r) == CellEquals(r[c.column], c.value.items[1])
       IN /\ ~result.raised
          /\ result.df.rows = SelectSeq(call.df.rows, Keep)
          /\ (call.df = ScenarioTable /\ c = Cond("b", "=", Scalar(TextX))
                => result.df.rows = <<[a |-> Num(1), b |-> TextX],
                                      [a |-> Num(3), b |-> TextX]>>)

C2_Witness ==
    /\ FilterDone
    /\ call.df = ScenarioTable
    /\ call.filters = <<Cond("b", "=", Scalar(TextX))>>
    /\ Len(result.df.rows) = 2

\* A between condition on the numeric column with a pair of numbers.
NumericBetween(c) ==
    /\ c.column = "a"
    /\ lower(c.operator) = "between"
    /\ c.value.list
    /\ Len(c.value.items) = 2
    /\ \A k \in 1..2 : c.value.items[k].tag = "Num"

RECURSIVE ExpandBetween(_)
ExpandBetween(filters) ==
    IF filters = <<>> THEN <<>>
    ELSE LET c == Head(filters)
         IN (IF NumericBetween(c)
             THEN <<Cond(c.column, ">=", Scalar(c.value.items[1])),
                    Cond(c.column, "<=", Scalar(c.value.items[2]))>>
             ELSE <<c>>) \o ExpandBetween(Tail(filters))

\* C3: on the numeric column, a between condition with a pair of numbers
\* [lo, hi] selects exactly the rows that the two conditions >= lo and <= hi
\* select together, alone or inside a batch; both bounds are inclusive: a
\* row whose cell equals lo or hi (lo <= hi) is kept.
C3_BetweenIsGeAndLe ==
    FilterDone =>
        /\ result.df = filter_data(call.df, ExpandBetween(call.filters)).df
        /\ (Len(call.filters) = 1 /\ NumericBetween(call.filters[1]) =>
              LET lo == call.filters[1].value.items[1]
                  hi == call.filters[1].value.items[2]
              IN \A i \in 1..Len(call.df.rows) :
                    (lo.n <= hi.n /\ call.df.rows[i].a \in {lo, hi})
                    => call.df.rows[i] \in SeqToSet(result.df.rows))

C3_Witness ==
    /\ FilterDone
    /\ call.filters = <<Cond("a", "between", List(<<Num(1), Num(2)>>))>>
    /\ Len(call.df.rows) = 2
    /\ call.df.rows[1].a = Num(2)
    /\ call.df.rows[2].a = Num(3)
    /\ result.df.rows = <<call.df.rows[1]>>

\* The operator names filter_data has a branch for.
SupportedOperators ==
    {"=", "==", "!=", ">", "<", ">=", "<=", "contains", "notcontains",
     "startswith", "endswith", "in", "notin", "between", "isnull", "notnull"}

SkippedCond(df, c) ==
    \/ ~HasColumn(df, c)
    \/ c.operator = NoOperator
    \/ lower(c.operator) \notin SupportedOperators

\* C4: a condition that names a column the table does not have, or an
\* operator filter_data has no branch for, removes no row and raises
\* nothing, and the other conditions of the batch are applied: the result
\* is the one of the batch without those conditions.
C4_BadConditionIsSkipped ==
    FilterDone =>
        LET Good(c) == ~SkippedCond(call.df, c)
        IN /\ ~result.raised
           /\ result.df = filter_data(call.df, SelectSeq(call.filters, Good)).df

C4_Witness ==
    /\ FilterDone
    /\ Len(call.filters) = 2
    /\ SkippedCond(call.df, call.filters[1])
    /\ ~SkippedCond(call.df, call.filters[2])
    /\ Len(call.df.rows) = 2
    /\ Len(result.df.rows) = 1
    /\ "warning" \in SeqToSet(result.log)

PermutationsOf(s) ==
    {[i \in 1..Len(s) |-> s[p[i]]] : p \in Permutations(1..Len(s))}

\* C5 as stated: for every permutation of the conditions of a batch,
\* filter_data returns the same rows.
C5_OrderOfConditionsIrrelevant ==
    FilterDone =>
        \A fs \in PermutationsOf(call.filters) :
            filter_data(call.df, fs).df = result.df

ComparisonOperators == {"=", "==", "!=", ">", "<", ">=", "<="}

\* C6 as stated: a comparison condition whose value is of another type
\* than a cell excludes the row of that cell, and raises nothing.
C6_IncompatibleTypeExcludesRow ==
    (/\ FilterDone
     /\ Len(call.filters) = 1
     /\ call.filters[1].operator \in ComparisonOperators
     /\ HasColumn(call.df, call.filters[1])
     /\ ~IsNull(call.filters[1].value.items[1]))
    => LET c == call.filters[1]
       IN /\ ~result.raised
          /\ \A i \in 1..Len(result.df.rows) :
                LET cell == result.df.rows[i][c.column]
                IN IsNull(cell) \/ cell.tag = c.value.items[1].tag

\* C7 as stated: contains, startsWith and endsWith never select a row whose
\* cell is missing.
C7_TextFilterNeverSelectsNull ==
    (/\ FilterDone
     /\ Len(call.filters) = 1
     /\ lower(call.filters[1].operator) \in {"contains", "startswith", "endswith"}
     /\ HasColumn(call.df, call.filters[1]))
    => \A i \in 1..Len(result.df.rows) :
          ~IsNull(result.df.rows[i][call.filters[1].column])

MalformedBetween(c) ==
    /\ c.operator # NoOperator
    /\ lower(c.operator) = "between"
    /\ ~(c.value.list /\ Len(c.value.items) = 2)

\* C8 as stated: a batch with a between condition whose value is not a list
\* of two elements ends in an error that reaches the caller, and no
\* condition of the batch is applied.  Stated for a batch of two conditions
\* on a table with rows, the malformed between on a column of the table.
C8_MalformedBetweenAborts ==
    (/\ FilterDone
     /\ Len(call.filters) = 2
     /\ Len(call.df.rows) > 0
     /\ \E i \in 1..2 : /\ MalformedBetween(call.filters[i])
                         /\ HasColumn(call.df, call.filters[i]))
    => result.raised

(***************************************************************************)
(* Properties of aggregate_data.                                           *)
(***************************************************************************)
AggregateDone == pc = "done" /\ call.fn = "aggregate_data"

\* A group-by column or an aggregation column is not a column of the table.
SomeColumnAbsent ==
    \/ \E i \in 1..Len(call.group_by.names) :
          call.group_by.names[i] \notin SeqToSet(call.df.columns)
    \/ \E i \in 1..Len(call.aggregations) :
          call.aggregations[i].column \notin SeqToSet(call.df.columns)

\* C9 as stated: whenever a group-by column or an aggregation column is
\* absent from the table, aggregate_data raises and returns no table.
C9_AbsentColumnAlwaysRaises ==
    (AggregateDone /\ SomeColumnAbsent)
    => (result.raised /\ ~result.returned)

\* C9 (amended): when group_by and aggregations are both non-empty and a
\* group-by column or an aggregation column is absent from the table,
\* aggregate_data logs an error, raises and returns no table.
C9_AbsentColumnRaisesWhenBothGiven ==
    (/\ AggregateDone
     /\ call.group_by.names # <<>>
     /\ call.aggregations # <<>>
     /\ SomeColumnAbsent)
    => /\ result.raised
       /\ ~result.returned
       /\ result.log = <<"error">>

C9_Witness ==
    /\ AggregateDone
    /\ call.group_by = GroupByList(<<"b">>)
    /\ call.aggregations = <<Agg("a", "sum"), Agg("c", "count")>>
    /\ Len(call.df.rows) = 2
    /\ result.raised

\* C10 as stated: every input row belongs to a group of the output, the
\* rows whose group-by cell is Null too: for every input row the output has
\* a row with that row's key.
C10_EveryRowIsInAGroup ==
    (/\ AggregateDone
     /\ result.returned
     /\ call.group_by.names # <<>>
     /\ call.aggregations # <<>>)
    => \A i \in 1..Len(call.df.rows) :
          \E j \in 1..Len(result.df.rows) :
             \A k \in 1..Len(call.group_by.names) :
                result.df.rows[j][call.group_by.names[k]]
                    = call.df.rows[i][call.group_by.names[k]]

\* Both group_by and aggregations are given and the call returned a table.
Aggregated ==
    /\ AggregateDone
    /\ result.returned
    /\ call.group_by.names # <<>>
    /\ call.aggregations # <<>>

ScenarioSumByB ==
    /\ call.df = ScenarioTable
    /\ call.group_by = GroupByStr("b")
    /\ call.aggregations = <<Agg("a", "sum")>>

\* C11 as stated: the aggregated columns are named <column>_<function>:
\* grouping the scenario table by b with {a: sum} yields the columns b and
\* a_sum.
C11_SumColumnIsNamedASum ==
    (AggregateDone /\ ScenarioSumByB)
    => /\ result.returned
       /\ result.df.columns = <<"b", "a_sum">>

\* C11 (amended): the output has the group-by columns followed by one column
\* per aggregation; when every aggregation names one function the column
\* keeps the name of the aggregated column, and grouping the scenario table
\* by b with {a: sum} yields [{b: x, a: 4}, {b: y, a: 2}]; the columns are
\* named <column>_<function> only when some aggregation lists its functions.
C11_ColumnsKeepAggregatedName ==
    Aggregated =>
       /\ (\A i \in 1..Len(call.aggregations) : ~call.aggregations[i].list)
            => result.df.columns =
                  call.group_by.names \o
                  [i \in 1..Len(call.aggregations) |->
                      call.aggregations[i].column]
       /\ call.aggregations = <<AggList("a", <<"sum">>)>>
            => result.df.columns = call.group_by.names \o <<"a_sum">>
       /\ call.aggregations = <<AggList("a", <<"sum", "max">>)>>
            => result.df.columns = call.group_by.names \o <<"a_sum", "a_max">>
       /\ call.aggregations = <<AggList("a", <<"min">>), Agg("b", "count")>>
            => result.df.columns = call.group_by.names \o <<"a_min", "b_count">>
       /\ ScenarioSumByB
            => result.df.rows = <<[b |-> TextX, a |-> Num(4)],
                                  [b |-> Text(<<"y">>), a |-> Num(2)]>>

C11_Witness ==
    /\ Aggregated
    /\ ScenarioSumByB
    /\ result.df.columns = <<"b", "a">>
    /\ Len(result.df.rows) = 2

\* The key of a row of the output.
OutKey(j) == group_key(result.df.rows[j], call.group_by.names)

\* The first row of the input that has the key.
FirstRowWith(key) ==
    CHOOSE i \in 1..Len(call.df.rows) :
        /\ group_key(call.df.rows[i], call.group_by.names) = key
        /\ \A h \in 1..(i - 1) :
              group_key(call.df.rows[h], call.group_by.names) # key

\* C12 as stated: the rows of the output appear in the order of the first
\* occurrence of each group key in the input, not in sorted key order.
C12_GroupsInFirstSeenOrder ==
    Aggregated =>
        \A i, j \in 1..Len(result.df.rows) :
            i < j => FirstRowWith(OutKey(i)) < FirstRowWith(OutKey(j))

\* C12 (amended): the rows of the output appear in ascending order of the
\* group key, whatever the order of first occurrence in the input.
C12_GroupsInSortedKeyOrder ==
    Aggregated =>
        \A i, j \in 1..Len(result.df.rows) :
            i < j => KeyLess(OutKey(i), OutKey(j))

C12_Witness ==
    /\ Aggregated
    /\ call.group_by = GroupByStr("b")
    /\ Len(call.df.rows) = 2
    /\ call.df.rows[1]["b"] = TextX
    /\ call.df.rows[2]["b"] = TextNa
    /\ Len(result.df.rows) = 2
    /\ result.df.rows[1]["b"] = TextNa

\* The functions of the aggregations of the call.
CalledFunctions ==
    {agg_pairs(call.aggregations)[i].func :
        i \in 1..Len(agg_pairs(call.aggregations))}

\* Every permutation of the input rows gives the same outcome and the same
\* multiset of output rows.
SameForEveryRowOrder ==
    \A rows \in PermutationsOf(call.df.rows) :
        LET out == aggregate_data([call.df EXCEPT !.rows = rows],
                                  call.group_by, call.aggregations)
        IN /\ out.raised = result.raised
           /\ out.df.columns = result.df.columns
           /\ out.df.rows \in PermutationsOf(result.df.rows)

JoinDone == pc = "done" /\ call.fn = "join_data"

Joined == JoinDone /\ result.returned

\* C14: for all left and right tables and key columns, the inner join has at
\* most len(left) * len(right) rows and the left join has at least
\* len(left) rows.
C14_JoinRowCounts ==
    Joined =>
       /\ call.join_type = "inner"
            => Len(result.df.rows)
                  <= Len(call.left_df.rows) * Len(call.right_df.rows)
       /\ call.join_type = "left"
            => Len(result.df.rows) >= Len(call.left_df.rows)

C14_Witness ==
    /\ Joined
    /\ call.join_type = "inner"
    /\ Len(call.left_df.rows) = 2
    /\ Len(call.right_df.rows) = 2
    /\ Len(result.df.rows) = 4

\* C15 as stated: a Null join key never matches anything: no join type
\* pairs a left row whose key is Null with a right row whose key is Null, so
\* no row of the result has a Null key beside cells of both sides.
C15_NullKeyNeverMatches ==
    Joined =>
        \A i \in 1..Len(result.df.rows) :
            ~(/\ IsNull(result.df.rows[i]["id"])
              /\ ~IsNull(result.df.rows[i]["v"])
              /\ ~IsNull(result.df.rows[i]["w"]))

\* The left row l has no match: its key is Null, or no right row has its
\* key.
Unmatched(l) ==
    \/ IsNull(call.left_df.rows[l]["id"])
    \/ \A r \in 1..Len(call.right_df.rows) :
          call.right_df.rows[r]["id"] # call.left_df.rows[l]["id"]

\* How many rows of the result have the key and the cell v of the left row l.
RowsOfLeft(l) ==
    Cardinality({i \in 1..Len(result.df.rows) :
        /\ result.df.rows[i]["id"] = call.left_df.rows[l]["id"]
        /\ result.df.rows[i]["v"] = call.left_df.rows[l]["v"]})

\* C16 as stated: a left join keeps every left row, fills the right-side
\* columns of the left rows without a match with Null, and adds no row for
\* a right key that no left row has; joining [{id: 1, v: A}] with
\* [{id: 1, w: B}, {id: 2, w: C}] on id yields exactly [{id: 1, v: A, w: B}].
C16_LeftJoinKeepsLeftRows ==
    (Joined /\ call.join_type = "left") =>
       /\ result.df.columns = <<"id", "v", "w">>
       /\ \A l \in 1..Len(call.left_df.rows) : RowsOfLeft(l) >= 1
       /\ \A l \in 1..Len(call.left_df.rows) :
             Unmatched(l) =>
                \A i \in 1..Len(result.df.rows) :
                    result.df.rows[i]["id"] = call.left_df.rows[l]["id"]
                        => IsNull(result.df.rows[i]["w"])
       /\ \A i \in 1..Len(result.df.rows) :
             \E l \in 1..Len(call.left_df.rows) :
                 /\ result.df.rows[i]["id"] = call.left_df.rows[l]["id"]
                 /\ result.df.rows[i]["v"] = call.left_df.rows[l]["v"]
       /\ (/\ call.left_df.rows = <<[id |-> Num(1), v |-> TextA]>>
           /\ call.right_df.rows = <<[id |-> Num(1), w |-> TextB],
                                     [id |-> Num(2), w |-> TextC]>>)
            => result.df.rows = <<[id |-> Num(1), v |-> TextA, w |-> TextB]>>

\* The same holds of every left join whose left keys are all present.
LeftJoinOfPresentKeys ==
    (\A l \in 1..Len(call.left_df.rows) : ~IsNull(call.left_df.rows[l]["id"]))
    => C16_LeftJoinKeepsLeftRows

(***************************************************************************)
(* Properties of pivot_data.                                               *)
(***************************************************************************)
PivotCall == call.fn = "pivot_data"

Pivoted == pc = "done" /\ PivotCall /\ result.returned

SupportedAggfuncs ==
    {"sum", "mean", "avg", "count", "min", "max", "median", "first", "last"}

\* C17: pivot_data called with a function name outside the supported set
\* fails with an error raised to the caller before any row is read, and
\* returns no table.
C17_UnsupportedAggfuncRaisesFirst ==
    (PivotCall /\ aggfunc_lower(call.aggfunc) \notin SupportedAggfuncs)
    => /\ pc # "pivot_table"
       /\ pc = "call" => result = NoResult
       /\ pc = "done" => /\ result.raised
                         /\ ~result.returned
                         /\ result.log = <<"error">>

C17_Witness ==
    /\ pc = "done"
    /\ PivotCall
    /\ call.aggfunc = "mode"
    /\ Len(call.df.rows) = 2
    /\ result.raised
    /\ ~result.returned

\* The cell of the result in the row of index value k and the column of
\* pivot value p.
PivotCell(k, p) ==
    LET i == CHOOSE i \in 1..Len(result.df.rows) : result.df.rows[i].key = k
        j == CHOOSE j \in 1..Len(result.df.columns) : result.df.columns[j] = p
    IN result.df.rows[i].cells[j]

\* The input has a row of index value k and pivot value p.
HasCombination(k, p) ==
    \E i \in 1..Len(call.df.rows) :
        call.df.rows[i]["k"] = k /\ call.df.rows[i]["p"] = p

\* The first row of the input with the pivot value p.
FirstRowOfPivot(p) ==
    CHOOSE i \in 1..Len(call.df.rows) :
        /\ call.df.rows[i]["p"] = p
        /\ \A h \in 1..(i - 1) : call.df.rows[h]["p"] # p

NoCellMissing ==
    \A i \in 1..Len(call.df.rows) :
        \A c \in {"k", "p", "v"} : ~IsNull(call.df.rows[i][c])

PresentCombinations ==
    {kp \in {<<call.df.rows[i]["k"], call.df.rows[i]["p"]>> :
                i \in 1..Len(call.df.rows)} :
        /\ ~IsNull(kp[1])
        /\ ~IsNull(kp[2])
        /\ ~IsNull(pivot_agg(agg_function(call.aggfunc),
                             group_cells(call.df, <<"k", "p">>, kp, "v")))}

TransformDone == pc = "done" /\ call.fn = "transform_columns"

SupportedTypes ==
    {"datetime_format", "numeric", "replace", "categorical", "bin", "string",
     "math"}

\* The entry names a column the table does not have, or a type outside the
\* supported set.
SkippedEntry(entry) ==
    \/ entry.column \notin SeqToSet(call.df.columns)
    \/ type_lower(entry.type) \notin SupportedTypes

\* The entries of the call without the i-th.
WithoutEntry(i) ==
    SubSeq(call.transformations, 1, i - 1)
        \o SubSeq(call.transformations, i + 1, Len(call.transformations))

\* C19: an entry that names an absent column or an unsupported type is
\* skipped without raising: the call returns a table, the entry changes no
\* column, and every other entry of the batch is applied.
C19_BadEntryIsSkipped ==
    TransformDone =>
        \A i \in 1..Len(call.transformations) :
            SkippedEntry(call.transformations[i]) =>
               /\ result.returned
               /\ ~result.raised
               /\ result.df.columns = call.df.columns
               /\ call.transformations[i].column \in SeqToSet(call.df.columns)
                    => Column(result.df, call.transformations[i].column)
                          = Column(call.df, call.transformations[i].column)
               /\ result.df = transform_columns(call.df, WithoutEntry(i)).df

C19_Witness ==
    /\ TransformDone
    /\ call.df = ScenarioTable
    /\ call.transformations =
          <<Entry("a", "scale", NoParams),
            Entry("b", "string", Params("upper", Null, Null, <<>>, <<>>))>>
    /\ result.returned
    /\ Column(result.df, "a") = <<Num(1), Num(2), Num(3)>>
    /\ Column(result.df, "b")
          = <<Text(<<"X">>), Text(<<"Y">>), Text(<<"X">>)>>

\* The edges increase.
Ascending(edges) ==
    /\ Len(edges) >= 2
    /\ \A i \in 1..(Len(edges) - 1) : edges[i] < edges[i + 1]

\* The bin the claim gives the number x: the bin [ei, ei+1) of the greatest
\* edge ei <= x, and the last bin for x = en; none outside the edges.
UpperBin(edges, x) ==
    LET n == Len(edges)
    IN IF x = edges[n] THEN Interval(edges[n - 1], edges[n])
       ELSE IF \E i \in 1..(n - 1) : edges[i] <= x /\ x < edges[i + 1]
       THEN LET i == CHOOSE i \in 1..(n - 1) :
                        edges[i] <= x /\ x < edges[i + 1]
            IN Interval(edges[i], edges[i + 1])
       ELSE Null

\* C20 as stated: the bin transform with ascending edges puts a value equal
\* to an interior edge ei into the upper bin [ei, ei+1), and the last bin is
\* closed on both sides, so that values equal to e0 and to en are binned.
C20_EdgeFallsIntoUpperBin ==
    (/\ TransformDone
     /\ Len(call.transformations) = 1
     /\ call.transformations[1].column = "a"
     /\ type_lower(call.transformations[1].type) = "bin"
     /\ call.transformations[1].params.labels = <<>>
     /\ Ascending(call.transformations[1].params.bins))
    => \A i \in 1..Len(call.df.rows) :
          LET cell == call.df.rows[i]["a"]
              edges == call.transformations[1].params.bins
          IN (cell.tag = "Num" /\ \E j \in 1..Len(edges) : edges[j] = cell.n)
             => /\ ~IsNull(result.df.rows[i]["a"])
                /\ result.df.rows[i]["a"] = UpperBin(edges, cell.n)

(***************************************************************************)
(* Properties of the datetime_format transform.                            *)
(***************************************************************************)
\* The call is one datetime_format entry on a column of the table.
DatetimeCall ==
    /\ TransformDone
    /\ Len(call.transformations) = 1
    /\ type_lower(call.transformations[1].type) = "datetime_format"
    /\ call.transformations[1].column \in SeqToSet(call.df.columns)

\* C21 as stated: after datetime_format on a column that holds at least one
\* unparsable value, every parsable cell of the column is a timestamp and
\* every unparsable cell is Null.
C21_UnparsableBecomesNull ==
    (/\ DatetimeCall
     /\ to_datetime_raises(call.df, call.transformations[1].column,
                           call.transformations[1].params.format))
    => LET column == call.transformations[1].column
           format == call.transformations[1].params.format
       IN \A i \in 1..Len(call.df.rows) :
             LET cell == call.df.rows[i][column]
                 out == result.df.rows[i][column]
             IN /\ ~datetime_parsable(cell, format) => IsNull(out)
                /\ (datetime_parsable(cell, format) /\ ~IsNull(cell))
                      => out.tag = "Timestamp"

(***************************************************************************)
(* Properties of the ResourceManager.                                      *)
(***************************************************************************)
Lineage(rm, d) == Get(rm.datasets, d).transformations

\* The step is a call of add_transformation on a registered dataset.
AddsTransformation ==
    /\ call'.fn = "add_transformation"
    /\ call'.dataset_id \in Keys(resource_manager.datasets)

\* C23: the lineage of a dataset is append-only: over any call of the
\* registry every dataset stays registered with the lineage it had as a
\* prefix of its lineage after the call, and add_transformation on dataset d
\* adds exactly one record, the one of the call, at the end of d's lineage
\* and changes no other dataset and no table.
C23_LineageIsAppendOnly ==
    [][/\ \A d \in Keys(resource_manager.datasets) :
             /\ d \in Keys(resource_manager'.datasets)
             /\ IsPrefix(Lineage(resource_manager, d),
                         Lineage(resource_manager', d))
       /\ AddsTransformation =>
             LET d == call'.dataset_id
                 old == Lineage(resource_manager, d)
                 new == Lineage(resource_manager', d)
             IN /\ Len(new) = Len(old) + 1
                /\ new[Len(new)].type = call'.transformation_type
                /\ new[Len(new)].params = call'.transformation_params
                /\ Keys(resource_manager'.datasets)
                      = Keys(resource_manager.datasets)
                /\ \A o \in Keys(resource_manager.datasets) \ {d} :
                      Get(resource_manager'.datasets, o)
                         = Get(resource_manager.datasets, o)
                /\ Get(resource_manager'.datasets, d).data
                      = Get(resource_manager.datasets, d).data]_vars

\* Two datasets are registered and the third call has added a record to the
\* first one.
C23_Witness ==
    /\ call.fn = "add_transformation"
    /\ result = TRUE
    /\ Keys(resource_manager.datasets) = {1, 2}
    /\ Len(Lineage(resource_manager, 1)) = 1
    /\ Lineage(resource_manager, 2) = <<>>

\* The table a dataset was registered with.
OriginalTable(d) ==
    history[CHOOSE i \in 1..Len(history) :
                /\ history[i].call.fn = "register_dataset"
                /\ history[i].ret = d].call.data

\* The table a lineage record gives from a table.
ApplyRecord(table, record) ==
    IF record.type = "transform"
    THEN transform_columns(table, record.params).df
    ELSE table

RECURSIVE Replay(_, _)
Replay(table, lineage) ==
    IF lineage = <<>> THEN table
    ELSE Replay(ApplyRecord(table, Head(lineage)), Tail(lineage))

\* C25 as stated: in every reachable state of the registry, replaying the
\* lineage of a dataset against its original table gives its current table.
C25_ReplayGivesCurrentTable ==
    \A d \in Keys(resource_manager.datasets) :
        Replay(OriginalTable(d), Lineage(resource_manager, d))
           = Get(resource_manager.datasets, d).data

GuardedMethods ==
    {"update_connection_status", "add_transformation", "update_dataset"}

\* The identifier of the call is one the manager has registered.
Registered(rm, c) ==
    IF c.fn = "update_connection_status"
    THEN c.connection_id \in Keys(rm.connections)
    ELSE c.dataset_id \in Keys(rm.datasets)

\* C27: update_connection_status, add_transformation and update_dataset
\* return False for an identifier that is not registered and then leave the
\* connections, datasets and visualizations as they were; for a registered
\* identifier they return True.
C27_UnknownIdChangesNothing ==
    [][call'.fn \in GuardedMethods =>
          IF Registered(resource_manager, call')
          THEN result' = TRUE
          ELSE result' = FALSE /\ resource_manager' = resource_manager]_vars

\* A guarded method has returned False on a manager that holds a
\* connection, after one had returned True.
C27_Witness ==
    /\ call.fn \in GuardedMethods
    /\ result = FALSE
    /\ resource_manager.connections # <<>>
    /\ \E i \in 1..Len(history) :
          history[i].call.fn \in GuardedMethods /\ history[i].ret = TRUE

\* C28: the output of list_connections does not depend on the passwords:
\* two managers that were given the same calls, with params that differ in
\* the value of the key password only, list the same.
C28_ListingHidesPasswords ==
    list_connections(resource_manager) = list_connections(twin)

\* The two managers hold a connection with different passwords whose status
\* was updated.
C28_Witness ==
    /\ resource_manager.connections # <<>>
    /\ "password" \in DOMAIN resource_manager.connections[1].value.params
    /\ resource_manager.connections[1].value.params.password
          # twin.connections[1].value.params.password
    /\ resource_manager.connections[1].value.status = "connected"
    /\ list_connections(resource_manager)[1].params.password = "********"

(***************************************************************************)
(* Properties of applying an operation to a registered dataset.            *)
(***************************************************************************)
\* The caller takes a step from one place of its sequence to another.
Moves(p, from, to) == pc[p] = from /\ pc'[p] = to

Quiet(d) ==
    \A p \in Callers :
        pc[p] \in {"compute", "store", "append"} => call[p].dataset_id # d

\* C24 as stated: the sequences of two operations on the same dataset do not
\* interleave, so no update is lost: once both are through, the table of the
\* dataset is the one its operations give in the order of the lineage.
C24_NoUpdateIsLost ==
    \A d \in Keys(resource_manager.datasets) :
        Quiet(d) =>
            Get(resource_manager.datasets, d).data
               = Replay(OriginalTable(d), Lineage(resource_manager, d))

(***************************************************************************)
(* Properties of the memo and insight tools.                               *)
(***************************************************************************)
\* C26 as stated: the add_insight tool, called with any visualization URI
\* and any insight text, completes without an error and returns success
\* true with the message "Insight added to memo".
C26_AddInsightSucceeds ==
    call.fn = "add_insight" =>
        /\ "raised" \notin DOMAIN result
        /\ result.success = TRUE
        /\ result.message = "Insight added to memo"

\* The i-th call created the memo id.
Created(i, id) ==
    history[i].call.fn = "create_memo" /\ history[i].ret = id

Deleted(j, id) ==
    history[j].call.fn = "delete_memo" /\ history[j].call.memo_id = id

\* After the first n calls the memo id was created and not deleted since.
Present(id, n) ==
    \E i \in 1..n : Created(i, id) /\ \A j \in (i + 1)..n : ~Deleted(j, id)

\* The content given when the memo id was created.
ContentGiven(id) ==
    history[CHOOSE i \in 1..Len(history) : Created(i, id)].call.content

\* What get_memo(id) is to return after the first n calls.
Expected(id, n) == IF Present(id, n) THEN ContentGiven(id) ELSE None

\* C29: after any sequence of create_memo and delete_memo calls,
\* get_memo(id) gives the content given at creation exactly when id was
\* created and not deleted since, and None otherwise; delete_memo(id)
\* returned True exactly when id was present; list_memos gives exactly the
\* present memos, each once.
C29_MemosFollowCreateAndDelete ==
    /\ \A id \in MemoIds :
          get_memo(memo_manager, id) = Expected(id, Len(history))
    /\ \A i \in 1..Len(history) :
          /\ history[i].call.fn = "get_memo"
               => history[i].ret = Expected(history[i].call.memo_id, i - 1)
          /\ history[i].call.fn = "delete_memo"
               => history[i].ret = Present(history[i].call.memo_id, i - 1)
    /\ LET listed == list_memos(memo_manager)
       IN /\ {listed[i] : i \in 1..Len(listed)}
                = {[id |-> id, content |-> ContentGiven(id)] :
                      id \in {m \in MemoIds : Present(m, Len(history))}}
          /\ \A i, j \in 1..Len(listed) :
                listed[i].id = listed[j].id => i = j

\* Two memos were created and the first deleted; the second is still there.
C29_Witness ==
    /\ Len(history) = 3
    /\ history[1].call.fn = "create_memo"
    /\ history[2].call.fn = "create_memo"
    /\ call = [fn |-> "delete_memo", memo_id |-> 1]
    /\ result.success = TRUE
    /\ get_memo(memo_manager, 1) = None
    /\ list_memos(memo_manager)
          = <<[id |-> 2, content |-> history[2].call.content]>>

(***************************************************************************)
(* Properties of clean_data.                                               *)
(***************************************************************************)
CleanDone == pc = "done" /\ call.fn = "clean_data"

\* The rows of the table passed in that the first two steps keep, as a mask:
\* the first of equal rows when drop_duplicates is set, and the rows without
\* a Null when drop_na is set.
KeptRow(i) ==
    /\ call.drop_duplicates
         => \A j \in 1..(i - 1) : call.df.rows[j] # call.df.rows[i]
    /\ call.drop_na
         => \A c \in SeqToSet(call.df.columns) : ~IsNull(call.df.rows[i][c])

\* The columns of the table passed in that drop_columns does not name.
RemainingColumns ==
    LET Kept(c) == c \notin SeqToSet(call.drop_columns)
    IN SelectSeq(call.df.columns, Kept)

\* The name the result has for a remaining column.
ResultName(c) ==
    IF c \in DOMAIN call.rename_columns THEN call.rename_columns[c] ELSE c

\* The cell the result has for a cell of the remaining column c.
ResultCell(c, cell) ==
    IF IsNull(cell) /\ ResultName(c) \in DOMAIN call.fill_na
    THEN call.fill_na[ResultName(c)]
    ELSE cell

ExpectedCleanRows ==
    LET kept == SelectRows(call.df.rows,
                           [i \in 1..Len(call.df.rows) |-> KeptRow(i)])
    IN [i \in 1..Len(kept) |->
           [n \in {ResultName(c) : c \in SeqToSet(RemainingColumns)} |->
               LET c == CHOOSE c \in SeqToSet(RemainingColumns) :
                            ResultName(c) = n
               IN ResultCell(c, kept[i][c])]]

\* C30: clean_data returns, without an error, the table that the steps give
\* in the order drop duplicates, drop rows with a Null, drop columns, rename
\* columns, fill Nulls: rows are dropped by the cells of all the columns
\* passed in, a name that is not a column at its step is ignored, fill_na
\* keys are matched against the renamed names, and with drop_na set fill_na
\* changes no cell.
C30_CleanStepsInOrder ==
    CleanDone =>
        /\ result.returned
        /\ ~result.raised
        /\ result.df.columns
              = [i \in 1..Len(RemainingColumns) |->
                    ResultName(RemainingColumns[i])]
        /\ result.df.rows = ExpectedCleanRows
        /\ call.drop_na
              => result.df.rows
                    = clean_data(call.df, call.drop_duplicates, call.drop_na,
                                 call.drop_columns, call.rename_columns,
                                 NoNames).df.rows

\* Column a is renamed to c and the fill for c fills its Null, the fill for
\* a is ignored; the duplicate row and column b are dropped.
C30_Witness ==
    /\ CleanDone
    /\ call.df.rows = <<[a |-> Null, b |-> TextX], [a |-> Num(1), b |-> Null],
                        [a |-> Null, b |-> TextX]>>
    /\ call.drop_duplicates
    /\ ~call.drop_na
    /\ call.drop_columns = <<"b">>
    /\ call.rename_columns = [a |-> "c", b |-> "d"]
    /\ call.fill_na = [a |-> Num(0), c |-> TextX]
    /\ result.df.columns = <<"c">>
    /\ result.df.rows = <<[c |-> TextX], [c |-> Num(1)]>>

====
